---------------------------- MODULE Spec2Model ----------------------------
(***************************************************************************)
(* A model of the tiling / render pipeline of acide (src/acide/tiles.pyx): *)
(* Tile, TilesGrid, SuperTile / RenderTile (the double-buffered Clip) and  *)
(* TilesPool, and of the Scheduler (src/acide/asyncop.pyx) that runs its   *)
(* tasks, and of the TypedGrid (src/acide/types.pyx) that TilesGrid        *)
(* extends.                                                                *)
(*                                                                         *)
(* Eleven specifications share the variables:                                *)
(*   SpecST  SuperTile.move_to over base grids and windows of every shape  *)
(*           up to the bounds;                                             *)
(*   SpecIdx the same, with get_tile_indices on the grid and the window;   *)
(*   SpecRT  one RenderTile over one TilesGrid, driven through the public  *)
(*           methods of RenderTile and TilesGrid;                          *)
(*   Spec    a TilesPool driven through its public methods, with the       *)
(*           scheduled render task and compression batches;                *)
(*   SpecTile  one Tile compressed from pixbufs of every shape, format     *)
(*           and buffer length up to the bounds, and two wide ones;        *)
(*   SpecSched the Scheduler with its runner loop and its tasks, driven    *)
(*           as TilesPool drives it, or by direct calls of add();          *)
(*   SpecGrid  one TypedGrid of every shape up to the bounds, and three    *)
(*           wide ones, with views sliced from it, SuperTiles built over   *)
(*           it and an iterator;                                           *)
(*   SpecUnit  the transform between two units of measure                  *)
(*           (src/acide/measure.pyx), for every pair of units;             *)
(*   SpecWin   one RenderTile of every shape up to the bounds, with the    *)
(*           bytes render_texture merges into its buffer;                  *)
(*   SpecRun   the Scheduler driven by direct calls of run(), stop() and   *)
(*           add(), while further TilesPools are constructed;              *)
(*   SpecSchedLoop  SpecSched under an event loop that keeps running: a    *)
(*           runner or a task that can take a step takes it in the end.    *)
(*                                                                         *)
(* Lengths are integers in the graphic's unit; the sizes chosen below keep *)
(* every tile rect integral, so the double arithmetic of the source is     *)
(* exact on them.  The ratio _r of a Tile is carried as the fraction       *)
(* <<_u, _z>> it was computed from; the ratio of a grid is derived from    *)
(* its totals and is not carried.                                          *)
(***************************************************************************)
EXTENDS Integers, Sequences, FiniteSets, TLC

VARIABLES
    viewport,     \* TilesPool.viewport.size, <<vw, vh>>
    stack,        \* TilesPool.stack: sequence of references into heap
    current,      \* TilesPool.current
    heap,         \* the live TilesGrid objects, by reference
    rt,           \* TilesPool.render_tile / the RenderTile under test
    render_task,  \* TilesPool.render_task and the GTask it completes
    batches,      \* compression units queued by schedule_compression
    loop_run,     \* Scheduler.loop_run: the runner loop is releasing tasks
    inits,        \* how many times TilesPool.__init__ has built the grids
    source,       \* the pixel source (pixbuf_cb): the tile it sizes oddly
    lastGood,     \* history (SpecRT): the side of the last good render
    tile,         \* the Tile under test (SpecTile)
    sched,        \* the Scheduler and the tasks it was given (SpecSched)
    tg,           \* the TypedGrid under test, its views and its iterator
    asyncop,      \* the module asyncop: _sched_singleton, the Schedulers made
    call          \* the last call: its name, exception and return value

vars == <<viewport, stack, current, heap, rt, render_task, batches, inits,
          loop_run, source, lastGood, tile, sched, tg, asyncop, call>>

-----------------------------------------------------------------------------
(* Bounds of the model *)

\* largest base grid width / height explored by SpecST
MaxDim == 4
\* how many times TilesPool.__init__ may build the grids
MaxInits == 1
\* how many compression batches may be queued at once
MaxBatches == 1

\* largest width / height of the small pixbufs handed to Tile.compress
MaxPix == 2

\* how many tasks a TilesPool may give the Scheduler in a run
MaxTasks == 5
\* how many tasks direct calls of add may give the Scheduler in a run
MaxJobs == 3

\* how many runner tasks of a Scheduler may be alive at once in SpecRun
MaxRunners == 2
\* how many TilesPools are constructed in SpecRun
MaxPools == 2
\* how many tasks the Scheduler is given in SpecRun
MaxRunJobs == 2

\* largest width / height of the render windows of SpecWin
MaxWin == 2

\* largest width / height of the small TypedGrids
MaxSide == 2
\* how many times an iterator is run to its end
MaxPasses == 2

(* Configuration handed to the program *)

\* the number of tiles of a grid whose compression is scheduled
UnitsPerBatch == 2

\* graphic.size, in the graphic's unit
GraphicW == 60
GraphicH == 60
\* viewport.size once the widget is realized
ViewW == 40
ViewH == 60
\* the scales given to TilesPool, ascending
Scales == <<1, 2>>
\* render_shape given to TilesPool; RenderTile's documented shape
RenderShape == <<2, 2>>
\* base grid of SpecRT
RTGridShape == <<4, 2>>
\* pixel size the pixel source gives a regular tile
PixW == 2
PixH == 1

\* gdk_memory_format_sizes[Gdk.MemoryFormat.R8G8B8]
FormatSize == 3
\* blosc's fixed header, the least a compressed buffer can weigh
BloscHeader == 16

-----------------------------------------------------------------------------
(* types.pxd helpers *)

cimax(a, b) == IF b > a THEN b ELSE a

cimin(a, b) == IF b < a THEN b ELSE a

\* ciceil of the quotient num / den of two positive doubles
ciceil(num, den) ==
    IF (num \div den) * den = num THEN num \div den ELSE (num \div den) + 1

-----------------------------------------------------------------------------
(* Tile *)

\* Tile.__cinit__; calls (history) counts the times the pixel source was
\* asked for this tile's pixels since the tile was last invalidated
NewTile ==
    [buffer |-> FALSE, _u |-> 0, _z |-> 0, _r |-> <<0, 1>>, u_shape |-> 0,
     _size |-> <<0, 0>>, format_size |-> 0, calls |-> 0]

\* self._u / float(self._z) as a fraction, 0.0 being <<0, 1>>
Ratio(u, z) == IF u = 0 THEN <<0, 1>> ELSE <<u, z>>

\* an invalidate that drops the buffer and forgets the compressed size
Tile_invalidate_keep(t) ==
    [t EXCEPT !.buffer = FALSE, !._u = 0, !.calls = 0]

\* Tile.invalidate
Tile_invalidate(t) ==
    [t EXCEPT !.buffer = FALSE, !._u = 0, !._z = 0, !._r = <<0, 1>>,
              !.calls = 0]

\* the Pixbuf the pixel source returns for tile (x, y): its width, height
\* and the length of its byte buffer
Pixbuf(src, x, y) ==
    LET w == IF src = <<x, y>> THEN PixW + 1 ELSE PixW
    IN  [width |-> w, height |-> PixH, len |-> w * PixH * FormatSize]

\* Tile.compress on a pixbuf whose length agrees with its size and format
Tile_compress(t, pixbuf) ==
    [t EXCEPT !.format_size = FormatSize,
              !._size = <<pixbuf.width, pixbuf.height>>,
              !._u = pixbuf.len,
              !.u_shape = pixbuf.len,
              !.buffer = TRUE,
              !._z = BloscHeader + pixbuf.len,
              !._r = Ratio(pixbuf.len, BloscHeader + pixbuf.len)]

\* A byte length can exceed the model's integers: it is carried as
\* <<hi, lo>>, standing for hi * 2^16 + lo.
Limb == 2 ^ 16

Wide(n) == <<n \div Limb, n % Limb>>

\* the product of a wide number by a small integer k
WideMul(a, k) == <<a[1] * k + (a[2] * k) \div Limb, (a[2] * k) % Limb>>

\* a > b on wide numbers
WideGT(a, b) == a[1] > b[1] \/ (a[1] = b[1] /\ a[2] > b[2])

\* BLOSC_MAX_BYTES_CHUNK = 2 ** 31
BLOSC_MAX_BYTES_CHUNK == <<2 ^ 15, 0>>

\* gdk_memory_format_sizes of the formats handed to Tile.compress:
\* R8G8B8 and R8G8B8A8
gdk_memory_format_sizes == {3, 4}

\* pixbuf.width * pixbuf.height * self.format_size, the exact product
TrueProduct(pixbuf, fs) ==
    WideMul(WideMul(Wide(pixbuf.width), pixbuf.height), fs)

\* the same product as the C int expression of the source evaluates it:
\* beyond 2^31 - 1 it overflows a signed 32-bit int, and the build either
\* wraps it (wraps) or carries it in a wider register; a wrapped value
\* with the sign bit set is negative, noted <<-1, 0>>
IntProduct(pixbuf, fs, wraps) ==
    LET p == TrueProduct(pixbuf, fs)
    IN  IF p[1] < 2 ^ 15 \/ ~wraps THEN p
        ELSE IF p[1] % Limb >= 2 ^ 15 THEN <<-1, 0>>
        ELSE <<p[1] % Limb, p[2]>>

\* Tile.compress(pixbuf, format), whatever the pixbuf: the tile it leaves
\* and the exception it raises; codec_ok tells whether blosc.compress_ptr
\* returns
compress(t, pixbuf, fs, wraps, codec_ok) ==
    LET t1 == [t EXCEPT !.format_size = fs]
        n  == pixbuf.len[1] * Limb + pixbuf.len[2]
        t2 == [t1 EXCEPT !._size = <<pixbuf.width, pixbuf.height>>,
                         !._u = n, !.u_shape = n]
    IN  IF IntProduct(pixbuf, fs, wraps) # pixbuf.len
        THEN [tile |-> t1, raised |-> "ValueError: missmatch"]
        ELSE IF WideGT(pixbuf.len, BLOSC_MAX_BYTES_CHUNK)
        THEN [tile |-> t1, raised |-> "ValueError: too large"]
        ELSE IF ~codec_ok
        THEN [tile |-> t2, raised |-> "blosc error"]
        ELSE [tile |-> [t2 EXCEPT !.buffer = TRUE, !._z = BloscHeader + n,
                                  !._r = Ratio(n, BloscHeader + n)],
              raised |-> "none"]

-----------------------------------------------------------------------------
(* TilesGrid *)

Cells(shape) == (0 .. shape[1] - 1) \X (0 .. shape[2] - 1)

\* rect of the tile (x, y) of a grid of that shape (init_tiles_grid), as
\* its extents <<x0, y0, x1, y1>>
TileExtents(shape, x, y) ==
    LET wt == GraphicW \div shape[1]
        ht == GraphicH \div shape[2]
    IN  <<wt * x, ht * y, wt * x + wt, ht * y + ht>>

\* TilesGrid(shape) followed by init_tiles_grid: every cell holds a new Tile
NewGrid(shape) ==
    [shape |-> shape, _u |-> 0, _z |-> 0,
     tiles |-> [c \in Cells(shape) |-> NewTile]]

\* the cells of the window of that shape whose top-left cell is (xo, yo)
Window(xo, yo, shape) ==
    {<<xo + i, yo + j>> : i \in 0 .. shape[1] - 1, j \in 0 .. shape[2] - 1}

\* compute_extents of a view: top-left tile's origin, bottom-right tile's
\* far corner
compute_extents(gshape, xo, yo, shape) ==
    LET tl == TileExtents(gshape, xo, yo)
        br == TileExtents(gshape, xo + shape[1] - 1, yo + shape[2] - 1)
    IN  <<tl[1], tl[2], br[3], br[4]>>

\* the cells TypedGrid.slice_ref leaves in a view: the slice
\* (xo : xo + w, yo : yo + h) of the base grid's view, cut at its edges
slice_ref(gshape, xo, yo, shape) == Window(xo, yo, shape) \cap Cells(gshape)

RECURSIVE SumOver(_, _)
SumOver(f, S) ==
    IF S = {} THEN 0
    ELSE LET c == CHOOSE c \in S : TRUE IN f[c] + SumOver(f, S \ {c})

\* TilesGrid.stats over the cells W of a view: <<_u, _z>>
stats(tiles, W) ==
    <<SumOver([c \in W |-> tiles[c]._u], W),
      SumOver([c \in W |-> tiles[c]._z], W)>>

\* a turn that asks the pixel source whatever the tile holds
compress_tile_always(t, src, x, y) ==
    [Tile_compress(t, Pixbuf(src, x, y)) EXCEPT !.calls = @ + 1]

\* one tile's turn in TilesGrid.compress and in _compress_tile_co: the
\* pixel source is asked for the tile's pixels, and the tile compressed,
\* only if the tile holds no buffer
compress_tile(t, src, x, y) ==
    IF t.buffer THEN t
    ELSE [Tile_compress(t, Pixbuf(src, x, y)) EXCEPT !.calls = @ + 1]

\* a TilesGrid.compress that skips the last column of the view
compress_tiles_short(tiles, W, src) ==
    [c \in DOMAIN tiles |->
        IF c \in W /\ (\E d \in W : d[1] > c[1])
        THEN compress_tile(tiles[c], src, c[1], c[2])
        ELSE tiles[c]]

\* the tiles after TilesGrid.compress over the cells W of a view
compress_tiles(tiles, W, src) ==
    [c \in DOMAIN tiles |->
        IF c \in W THEN compress_tile(tiles[c], src, c[1], c[2])
        ELSE tiles[c]]

\* TilesGrid.invalidate over the cells W of a view
invalidate_tiles(tiles, W) ==
    [c \in DOMAIN tiles |->
        IF c \in W THEN Tile_invalidate(tiles[c]) ELSE tiles[c]]

-----------------------------------------------------------------------------
(* Clip *)

NoTexture == [set |-> FALSE, w |-> 0, h |-> 0, of |-> <<0, 0, 0>>]

\* Clip.__cinit__
NewClip == [_x |-> 0, _y |-> 0, _w |-> 0, _h |-> 0, _texture |-> NoTexture]

-----------------------------------------------------------------------------
(* SuperTile / RenderTile.  A view is its base grid's reference, the       *)
(* top-left cell (xo, yo) of its slice and its shape.                       *)

\* the value TypedGrid.indices holds for cell (x, y): an unsigned short
CellIndex(gshape, x, y) == ((y * gshape[1]) + x) % 65536

NoRenderTile ==
    [exists |-> FALSE, ref |-> 0, xo |-> 0, yo |-> 0, shape |-> <<0, 0>>,
     extents |-> <<0, 0, 0, 0>>, _u |-> 0, _z |-> 0,
     is_valid |-> FALSE, switch |-> FALSE, buffer |-> FALSE,
     _clip |-> NewClip, _r_clip |-> NewClip]

\* SuperTile.__cinit__ then RenderTile.__cinit__ on the grid at ref
NewRenderTile(ref, grid, shape) ==
    LET width  == IF shape[1] < 1 THEN 1 ELSE cimin(shape[1], grid.shape[1])
        height == IF shape[2] < 1 THEN 1 ELSE cimin(shape[2], grid.shape[2])
        st     == stats(grid.tiles,
                        slice_ref(grid.shape, 0, 0, <<width, height>>))
    IN  [exists |-> TRUE, ref |-> ref, xo |-> 0, yo |-> 0,
         shape |-> <<width, height>>,
         extents |-> compute_extents(grid.shape, 0, 0, <<width, height>>),
         _u |-> st[1], _z |-> st[2],
         is_valid |-> FALSE, switch |-> FALSE, buffer |-> FALSE,
         _clip |-> NewClip, _r_clip |-> NewClip]

RTWindow(r) == Window(r.xo, r.yo, r.shape)

\* a clamp against the grid's far edge rather than the last position that
\* keeps the window inside
ClampTarget_edge(r, grid, x, y) ==
    LET rw == grid.shape[1]
        rh == grid.shape[2]
    IN  <<cimax(IF x >= rw THEN rw ELSE x, 0),
          cimax(IF y >= rh THEN rh ELSE y, 0)>>

\* the top-left cell SuperTile.move_to clamps the target (x, y) to
ClampTarget(r, grid, x, y) ==
    LET sw == r.shape[1]
        sh == r.shape[2]
        rw == grid.shape[1]
        rh == grid.shape[2]
    IN  <<cimax(IF x >= rw - sw THEN rw - sw ELSE x, 0),
          cimax(IF y >= rh - sh THEN rh - sh ELSE y, 0)>>

\* SuperTile.move_to: the view after the call and the value returned
SuperTile_move_to(r, grid, x, y) ==
    LET t  == ClampTarget(r, grid, x, y)
        xo == t[1]
        yo == t[2]
    IN  IF CellIndex(grid.shape, xo, yo) # CellIndex(grid.shape, r.xo, r.yo)
        THEN LET st == stats(grid.tiles,
                             slice_ref(grid.shape, xo, yo, r.shape))
             IN  [rt |-> [r EXCEPT !.xo = xo, !.yo = yo,
                            !.extents = compute_extents(grid.shape, xo, yo,
                                                        r.shape),
                            !._u = st[1], !._z = st[2]],
                  ret |-> TRUE]
        ELSE [rt |-> r, ret |-> FALSE]

\* RenderTile.clip: the Clip the switch selects
clip(r) == IF r.switch THEN r._clip ELSE r._r_clip

\* the Clip of one side: TRUE is _clip, FALSE is _r_clip
ClipOf(r, side) == IF side THEN r._clip ELSE r._r_clip

\* RenderTile.invalidate
RenderTile_invalidate(r) ==
    [r EXCEPT !.switch = ~r.switch, !.is_valid = FALSE]

\* a move_to that invalidates whether or not the window moved
RenderTile_move_to_always(r, grid, x, y) ==
    LET m == SuperTile_move_to(r, grid, x, y)
        i == RenderTile_invalidate(m.rt)
    IN  [rt |-> IF i.switch
                THEN [i EXCEPT !._clip._x = i.extents[1],
                               !._clip._y = i.extents[2]]
                ELSE [i EXCEPT !._r_clip._x = i.extents[1],
                               !._r_clip._y = i.extents[2]],
         ret |-> m.ret]

\* RenderTile.move_to
RenderTile_move_to(r, grid, x, y) ==
    LET m == SuperTile_move_to(r, grid, x, y)
    IN  IF m.ret
        THEN LET i == RenderTile_invalidate(m.rt)
             IN  [rt |-> IF i.switch
                         THEN [i EXCEPT !._clip._x = i.extents[1],
                                        !._clip._y = i.extents[2]]
                         ELSE [i EXCEPT !._r_clip._x = i.extents[1],
                                        !._r_clip._y = i.extents[2]],
                  ret |-> TRUE]
        ELSE [rt |-> r, ret |-> FALSE]

\* an allocate_buffer that does not look for missing tile buffers
allocate_buffer_unchecked(r, tiles, memok) ==
    LET W  == RTWindow(r)
        st == stats(tiles, W)
        w  == SumOver([i \in 0 .. r.shape[1] - 1 |->
                          tiles[<<r.xo + i, r.yo>>]._size[1]],
                      0 .. r.shape[1] - 1)
        h  == SumOver([j \in 0 .. r.shape[2] - 1 |->
                          tiles[<<r.xo, r.yo + j>>]._size[2]],
                      0 .. r.shape[2] - 1)
    IN  IF ~memok
        THEN [rt |-> [r EXCEPT !._u = st[1], !._z = st[2]], ret |-> -3]
        ELSE LET a == [r EXCEPT !._u = st[1], !._z = st[2], !.buffer = TRUE]
             IN  [rt |-> IF a.switch
                         THEN [a EXCEPT !._clip._w = w, !._clip._h = h]
                         ELSE [a EXCEPT !._r_clip._w = w, !._r_clip._h = h],
                  ret |-> 1]

\* RenderTile.allocate_buffer; memok: the allocation of the merge buffer
\* succeeds
allocate_buffer(r, tiles, memok) ==
    LET W  == RTWindow(r)
        st == stats(tiles, W)
        w  == SumOver([i \in 0 .. r.shape[1] - 1 |->
                          tiles[<<r.xo + i, r.yo>>]._size[1]],
                      0 .. r.shape[1] - 1)
        h  == SumOver([j \in 0 .. r.shape[2] - 1 |->
                          tiles[<<r.xo, r.yo + j>>]._size[2]],
                      0 .. r.shape[2] - 1)
    IN  IF \E c \in W : ~tiles[c].buffer
        THEN [rt |-> [r EXCEPT !._u = 0, !._z = 0], ret |-> -2]
        ELSE IF ~memok
        THEN [rt |-> [r EXCEPT !._u = st[1], !._z = st[2]], ret |-> -3]
        ELSE LET a == [r EXCEPT !._u = st[1], !._z = st[2], !.buffer = TRUE]
             IN  [rt |-> IF a.switch
                         THEN [a EXCEPT !._clip._w = w, !._clip._h = h]
                         ELSE [a EXCEPT !._r_clip._w = w, !._r_clip._h = h],
                  ret |-> 1]

\* fill_buffer's check that the tiles of the window can be merged: equal
\* widths down each column, equal heights along each row
Mergeable(r, tiles) ==
    /\ \A x \in 0 .. r.shape[1] - 1 : \A y \in 0 .. r.shape[2] - 2 :
          tiles[<<r.xo + x, r.yo + y>>]._size[1]
              = tiles[<<r.xo + x, r.yo + y + 1>>]._size[1]
    /\ \A y \in 0 .. r.shape[2] - 1 : \A x \in 0 .. r.shape[1] - 2 :
          tiles[<<r.xo + x, r.yo + y>>]._size[2]
              = tiles[<<r.xo + x + 1, r.yo + y>>]._size[2]

\* RenderTile.fill_buffer, for windows at least two tiles high; memok: the
\* allocation of the column bands succeeds.  Only the value returned: the
\* bytes written to self.buffer are carried by the texture's origin.
fill_buffer(r, tiles, memok) ==
    IF r.buffer /\ Mergeable(r, tiles)
    THEN IF memok THEN 1 ELSE -3
    ELSE -2

\* the Gdk.MemoryTexture render_texture builds: its size and the window
\* whose tiles' pixels it holds
Texture(r, w, h) ==
    [set |-> TRUE, w |-> w, h |-> h, of |-> <<r.ref, r.xo, r.yo>>]

\* RenderTile.render_texture: the RenderTile after the call, the exception
\* raised ("none" when it returns) and whether a texture was built
render_texture(r, tiles, memok1, memok2) ==
    IF ~r.is_valid
    THEN LET a == allocate_buffer(r, tiles, memok1)
         IN  IF a.ret < 0
             THEN [rt |-> a.rt, raised |-> "MemoryError", built |-> FALSE]
             ELSE IF fill_buffer(a.rt, tiles, memok2) > 0
             THEN LET c == clip(a.rt)
                      t == Texture(a.rt, c._w, c._h)
                      b == [a.rt EXCEPT !.buffer = FALSE, !.is_valid = TRUE]
                  IN  [rt |-> IF b.switch
                              THEN [b EXCEPT !._clip._texture = t]
                              ELSE [b EXCEPT !._r_clip._texture = t],
                       raised |-> "none", built |-> TRUE]
             ELSE [rt |-> RenderTile_invalidate(a.rt),
                   raised |-> "none", built |-> FALSE]
    ELSE [rt |-> IF r.switch
                 THEN [r EXCEPT !._r_clip._texture = NoTexture]
                 ELSE [r EXCEPT !._clip._texture = NoTexture],
          raised |-> "none", built |-> FALSE]

(* Scheduler (asyncop.pyx) *)

\* Priority
HIGH == 0
NEXT == 1
LOW == -1

\* PriorityQueue.__cinit__; the set dones, which nothing reads, is not
\* carried
PriorityQueue(id) ==
    [id |-> id, queue |-> {}, pendings |-> {}, event |-> FALSE]

\* no runner task
NoRunner == [st |-> "none", i |-> 0, p |-> 0]

\* Scheduler.__cinit__: priorities lists the queues by their id, pq holds
\* the PriorityQueue objects (a task keeps a reference to its queue after
\* the queue has left the list), tasks the asyncio tasks created by add,
\* uid the counter of _unique_id, runner the task self.runner, orphans the
\* runner tasks that are not done and that self.runner no longer names,
\* render_task TilesPool.render_task (0:
\* None), batch the number of compression batches scheduled so far and
\* client who gives it tasks: a TilesPool ("pool") or direct calls of add
NewScheduler ==
    [priorities |-> <<HIGH, LOW>>,
     pq |-> (HIGH :> PriorityQueue(HIGH)) @@ (LOW :> PriorityQueue(LOW)),
     tasks |-> <<>>, uid |-> 0, runner |-> NoRunner, orphans |-> <<>>,
     render_task |-> 0, batch |-> 0, client |-> "pool"]

\* the module asyncop as its import leaves it: _sched_singleton is None
\* (0), no Scheduler object exists and no TilesPool holds one
Imported == [_sched_singleton |-> 0, made |-> 0, pools |-> <<>>]

\* get_singleton()
get_singleton(m) == m._sched_singleton

\* set_singleton(sched): the function has no global statement, so the
\* name it assigns is a local of its own and the module's variable is
\* left as it was
set_singleton(m, sch) == m

\* Scheduler.new(): the module it leaves and the Scheduler it returns,
\* the Scheduler objects being numbered in the order they are made
Scheduler_new(m) ==
    LET sch == get_singleton(m)
    IN  IF sch = 0
        THEN [m |-> set_singleton([m EXCEPT !.made = @ + 1], m.made + 1),
              ret |-> m.made + 1]
        ELSE [m |-> m, ret |-> sch]

\* the first lines of TilesPool.__cinit__: self.scheduler = Scheduler.new()
Pool_scheduler(m) ==
    LET r == Scheduler_new(m)
    IN  [r.m EXCEPT !.pools = Append(@, r.ret)]

\* the module once the first TilesPool is constructed
OnePool == Pool_scheduler(Imported)

\* task.done()
Done(task) == task.st \in {"done", "cancelled"}

\* the task has not begun to run the coroutine it wraps
Unstarted(task) == task.st \in {"new", "waiting", "woken"}

\* PriorityQueue.set: asyncio.Event.set releases every task waiting on it
Event_set(s, id) ==
    [s EXCEPT !.pq[id].event = TRUE,
              !.tasks = [k \in DOMAIN s.tasks |->
                            IF s.tasks[k].pq = id /\ s.tasks[k].st = "waiting"
                            THEN [s.tasks[k] EXCEPT !.st = "woken"]
                            ELSE s.tasks[k]]]

\* PriorityQueue.clear on every queue whose id is in ids
Event_clear(s, ids) ==
    [s EXCEPT !.pq = [id \in DOMAIN s.pq |->
                         IF id \in ids THEN [s.pq[id] EXCEPT !.event = FALSE]
                         ELSE s.pq[id]]]

\* position (from 1) of the queue id in the list priorities
IndexOf(s, id) == CHOOSE k \in DOMAIN s.priorities : s.priorities[k] = id

\* Scheduler.add(co, priority): the scheduler it leaves; the task it
\* returns is the last of tasks
Scheduler_add(s, priority, kind, suspends) ==
    LET n   == Len(s.priorities)
        ins == priority = NEXT
        id  == IF ins THEN s.uid + 1
               ELSE IF priority = HIGH THEN HIGH ELSE LOW
        pr  == IF ins
               THEN SubSeq(s.priorities, 1, n - 1) \o <<id>> \o <<LOW>>
               ELSE s.priorities
        qs  == IF ins THEN s.pq @@ (id :> PriorityQueue(id)) ELSE s.pq
        k   == CHOOSE j \in DOMAIN pr : pr[j] = id
        low == {pr[j] : j \in k + 1 .. Len(pr)}
        tid == Len(s.tasks) + 1
        t   == [pq |-> id, st |-> "new", kind |-> kind, batch |-> s.batch,
                suspends |-> suspends]
    IN  [s EXCEPT !.priorities = pr,
                  !.uid = IF ins THEN id ELSE @,
                  !.pq = [c \in DOMAIN qs |->
                             IF c = id
                             THEN [qs[c] EXCEPT !.queue = @ \cup {tid}]
                             ELSE IF c \in low
                             THEN [qs[c] EXCEPT !.event = FALSE]
                             ELSE qs[c]],
                  !.tasks = Append(@, t)]

\* a task.cancel() that cancels nothing
Task_cancel_not(s, tid) == s

\* task.cancel(): a task that is not done ends cancelled at its next step,
\* without running the coroutine it wraps if it had not begun it
Task_cancel(s, tid) ==
    IF Done(s.tasks[tid]) THEN s
    ELSE [s EXCEPT !.tasks[tid].st = "cancelled"]

\* Scheduler.stop(): the runner is cancelled; a runner that had begun its
\* loop leaves it through the finally of run_forever
Scheduler_stop(s) ==
    IF s.runner.st = "sleeping"
    THEN [Event_clear(s, {s.priorities[1]}) EXCEPT !.runner = NoRunner]
    ELSE [s EXCEPT !.runner = NoRunner]

\* Scheduler.run(mode), the last mode being Run.FOREVER, running being
\* self.loop_run: the new runner task replaces the one self.runner named,
\* which nothing cancels
Scheduler_run(s, running) ==
    IF running THEN s
    ELSE [s EXCEPT !.runner = [NoRunner EXCEPT !.st = "new"],
                   !.orphans = IF s.runner.st = "none" THEN @
                               ELSE Append(@, s.runner)]

\* Scheduler.control(priority)
control(s, id) ==
    LET pd == {k \in s.pq[id].pendings : ~Done(s.tasks[k])}
        s1 == [s EXCEPT !.pq[id].pendings = pd]
    IN  IF ~s1.pq[id].event THEN s1
        ELSE LET fed == pd \cup s1.pq[id].queue
                 s2  == [s1 EXCEPT !.pq[id].pendings = fed,
                                   !.pq[id].queue = {}]
                 s3  == IF id # LOW /\ fed = {}
                        THEN Event_set(s2, s2.priorities[IndexOf(s2, id) + 1])
                        ELSE s2
             IN  IF id # HIGH THEN Event_clear(s3, {id}) ELSE s3

\* Scheduler.clear(): every level between HIGH and LOW whose queue is empty
\* leaves the list
clear(s) ==
    [s EXCEPT !.priorities =
        SelectSeq(s.priorities,
                  LAMBDA id : id \in {HIGH, LOW} \/ s.pq[id].queue # {})]

-----------------------------------------------------------------------------
(* TypedGrid (src/acide/types.pyx).  The list items is carried as the set   *)
(* of the <<slot, item>> of its slots that hold an item; a memoryview of    *)
(* indices is carried as the offset and the shape of its slice.             *)

\* the greatest value the format 'H' (unsigned short) of indices holds
USHRT_MAX == 65535

\* the empty slot
NoItem == "None"

\* the items of the type the grid holds
Items == {"a"}

\* an object of another type
Stranger == "stranger"

\* self.view of a grid built with a zero in its shape
NoView == [none |-> TRUE, xo |-> 0, yo |-> 0, w |-> 0, h |-> 0]

Mview(xo, yo, w, h) ==
    [none |-> FALSE, xo |-> xo, yo |-> yo, w |-> w, h |-> h]

\* the truth of a memoryview (if self.view): its length, shape[0]
Truth(v) == ~v.none /\ v.w > 0

\* no iterator was made
NoIterator ==
    [live |-> FALSE, view |-> 0, index |-> 0, _len |-> 0, out |-> <<>>,
     passes |-> 0]

\* no TypedGrid was made
NoGrid ==
    [raised |-> "none", shape |-> <<0, 0>>, items |-> {}, views |-> <<>>,
     objs |-> <<>>, it |-> NoIterator, use |-> "none"]

\* the grid object that holds views[k]: its class, the object its _ref
\* names (a position in views) and the length of its own items list
GridObject(type, _ref, len) == [type |-> type, _ref |-> _ref, len |-> len]

\* TypedGrid.__cinit__(pytype, shape): indices[x, y] = (y * shape[0]) + x
\* is packed as an unsigned short, which fails beyond USHRT_MAX
TypedGrid_cinit(shape) ==
    LET w == cimax(shape[1], 0)
        h == cimax(shape[2], 0)
    IN  IF w # 0 /\ h # 0 /\ ((h - 1) * w) + (w - 1) > USHRT_MAX
        THEN [NoGrid EXCEPT !.raised = "struct.error", !.shape = <<w, h>>]
        ELSE [NoGrid EXCEPT
                 !.shape = <<w, h>>,
                 !.views = <<IF w # 0 /\ h # 0 THEN Mview(0, 0, w, h)
                             ELSE NoView>>,
                 !.objs = <<GridObject("TypedGrid", 1, w * h)>>]

\* TilesGrid.__cinit__(shape), after TypedGrid.__cinit__
TilesGrid_cinit(shape) ==
    LET g == TypedGrid_cinit(shape)
    IN  IF g.raised # "none" THEN g
        ELSE [g EXCEPT !.objs[1].type = "TilesGrid"]

\* self._ref.items[i]
ItemAt(items, i) ==
    IF \E p \in items : p[1] = i
    THEN (CHOOSE p \in items : p[1] = i)[2]
    ELSE NoItem

\* self._ref.items[i] = item
PutItem(items, i, item) ==
    {p \in items : p[1] # i} \cup
        (IF item = NoItem THEN {} ELSE {<<i, item>>})

\* a getindex_at whose negative indices count from the end of the base grid
getindex_at_base(g, v, x, y) ==
    LET x1 == IF x < 0 THEN g.shape[1] + x ELSE x
        y1 == IF y < 0 THEN g.shape[2] + y ELSE y
    IN  IF x1 < 0 \/ x1 >= v.w \/ y1 < 0 \/ y1 >= v.h
        THEN -1
        ELSE CellIndex(g.shape, v.xo + x1, v.yo + y1)

\* TypedGrid.getindex_at(x, y) on the view v of the grid g
getindex_at(g, v, x, y) ==
    LET x1 == IF x < 0 THEN v.w + x ELSE x
        y1 == IF y < 0 THEN v.h + y ELSE y
    IN  IF x1 < 0 \/ x1 >= v.w \/ y1 < 0 \/ y1 >= v.h
        THEN -1
        ELSE CellIndex(g.shape, v.xo + x1, v.yo + y1)

\* TypedGrid.getitem_at(x, y)
getitem_at(g, v, x, y) ==
    LET index == getindex_at(g, v, x, y)
    IN  IF index > -1
        THEN [raised |-> "none", item |-> ItemAt(g.items, index)]
        ELSE [raised |-> "IndexError", item |-> NoItem]

\* TypedGrid.__getitem__((x, y)), x and y integers
TypedGrid_getitem(g, v, x, y) ==
    IF ~Truth(v) THEN [raised |-> "IndexError", item |-> NoItem]
    ELSE getitem_at(g, v, x, y)

\* a __setitem__ that takes the slot of (x, y) in a grid of the view's
\* own shape
TypedGrid_setitem_local(g, v, x, y, item) ==
    IF ~Truth(v) THEN [raised |-> "IndexError", items |-> g.items]
    ELSE IF item \notin Items \cup {NoItem}
    THEN [raised |-> "ValueError", items |-> g.items]
    ELSE IF getindex_at(g, v, x, y) > -1
    THEN [raised |-> "none",
          items |-> PutItem(g.items,
                       getindex_at(g, Mview(0, 0, v.w, v.h), x, y), item)]
    ELSE [raised |-> "IndexError", items |-> g.items]

\* TypedGrid.__setitem__((x, y), item)
TypedGrid_setitem(g, v, x, y, item) ==
    IF ~Truth(v) THEN [raised |-> "IndexError", items |-> g.items]
    ELSE IF item \notin Items \cup {NoItem}
    THEN [raised |-> "ValueError", items |-> g.items]
    ELSE LET indice == getindex_at(g, v, x, y)
         IN  IF indice > -1
             THEN [raised |-> "none",
                   items |-> PutItem(g.items, indice, item)]
             ELSE [raised |-> "IndexError", items |-> g.items]

\* TypedGrid.__delitem__((x, y))
TypedGrid_delitem(g, v, x, y) ==
    IF ~Truth(v) THEN [raised |-> "IndexError", items |-> g.items]
    ELSE LET indice == getindex_at(g, v, x, y)
         IN  IF indice > -1
             THEN [raised |-> "none",
                   items |-> PutItem(g.items, indice, NoItem)]
             ELSE [raised |-> "IndexError", items |-> g.items]

\* slice(start, stop).indices(len): <<start, length>> of the slice
SliceIndices(sl, len) ==
    LET start == IF sl[1] < 0 THEN cimax(sl[1] + len, 0)
                 ELSE cimin(sl[1], len)
        stop  == IF sl[2] < 0 THEN cimax(sl[2] + len, 0)
                 ELSE cimin(sl[2], len)
    IN  <<start, cimax(stop - start, 0)>>

\* TypedGrid.get_slice(slx, sly) on the view at k: self.view[slx, sly]
get_slice(g, k, slx, sly) ==
    LET v  == g.views[k]
        sx == SliceIndices(slx, v.w)
        sy == SliceIndices(sly, v.h)
    IN  Mview(v.xo + sx[1], v.yo + sy[1], sx[2], sy[2])

\* TypedGrid.__getitem__((slx, sly)), slx and sly slices
TypedGrid_getslice(g, k, slx, sly) ==
    IF ~Truth(g.views[k]) THEN [raised |-> "IndexError", view |-> NoView]
    ELSE [raised |-> "none", view |-> get_slice(g, k, slx, sly)]

\* the object get_slice returns for the view at k: a TypedGrid with no item
\* of its own, whose _ref is self._ref
Sliced(g, k) == GridObject("TypedGrid", g.objs[k]._ref, 0)

\* the grid whose views[k + 1] is the view v of the object obj, in place of
\* what was held from there on
Held(g, k, v, obj) ==
    [g EXCEPT !.views = Append(SubSeq(@, 1, k), v),
              !.objs = Append(SubSeq(@, 1, k), obj)]

\* the cells of the base grid that the view v names
ViewCells(g, v) ==
    {CellIndex(g.shape, v.xo + x, v.yo + y) :
        x \in 0 .. v.w - 1, y \in 0 .. v.h - 1}

\* SuperTile.__cinit__(grid, shape), grid the object at k: compute_extents
\* and stats read self._ref.items at the indices of the view
SuperTile_cinit(g, k, shape) ==
    LET grid == g.objs[k]
        gv   == g.views[k]
        width  == IF shape[1] < 1 THEN 1 ELSE cimin(shape[1], gv.w)
        height == IF shape[2] < 1 THEN 1 ELSE cimin(shape[2], gv.h)
        v    == get_slice(g, k, <<0, width>>, <<0, height>>)
        obj  == GridObject("SuperTile", k,
                           cimax(shape[1], 0) * cimax(shape[2], 0))
    IN  IF grid.type \notin {"TilesGrid", "SuperTile"}
        THEN [raised |-> "TypeError", view |-> NoView, obj |-> obj]
        ELSE IF gv.none
        THEN [raised |-> IF shape[1] < 1 /\ shape[2] < 1 THEN "TypeError"
                         ELSE "AttributeError",
              view |-> NoView, obj |-> obj]
        ELSE IF v.w = 0 \/ v.h = 0
                \/ \E i \in ViewCells(g, v) : i >= grid.len
        THEN [raised |-> "IndexError", view |-> NoView, obj |-> obj]
        ELSE [raised |-> "none", view |-> v, obj |-> obj]

\* slice(None, None, None).indices(len)
Whole(len) == <<0, len>>

\* TypedGrid.__getitem__(col), col an integer: getitem slices the columns
\* with slice(col, col + 1, None)
TypedGrid_getitem_col(g, k, col) ==
    TypedGrid_getslice(g, k, <<col, col + 1>>, Whole(g.views[k].h))

\* TypedGrid.__getitem__((slx, row)), slx a slice and row an integer: the
\* rows are sliced with slice(row, row + 1)
TypedGrid_getitem_row(g, k, slx, row) ==
    TypedGrid_getslice(g, k, slx, <<row, row + 1>>)

\* __TypedGridIterator.__cinit__(grid), grid the view at k
TypedGridIterator_cinit(g, k) ==
    IF g.views[k].none
    THEN [raised |-> "AttributeError", it |-> g.it]
    ELSE [raised |-> "none",
          it |-> [live |-> TRUE, view |-> k, index |-> 0,
                  _len |-> g.views[k].w * g.views[k].h, out |-> <<>>,
                  passes |-> 0]]

\* __TypedGridIterator.__next__; out (history) lists the slots whose items
\* the pass has yielded
TypedGridIterator_next(g, it) ==
    LET v == g.views[it.view]
    IN  IF it.index = it._len
        THEN [raised |-> "StopIteration", item |-> NoItem,
              it |-> [it EXCEPT !.index = 0, !.passes = @ + 1,
                                !.out = IF it._len = 0 THEN <<>> ELSE @]]
        ELSE LET slot == CellIndex(g.shape, v.xo + (it.index % v.w),
                                   v.yo + (it.index \div v.w))
             IN  [raised |-> "none", item |-> ItemAt(g.items, slot),
                  it |-> [it EXCEPT !.index = @ + 1,
                             !.out = IF it.index = 0 THEN <<slot>>
                                     ELSE Append(@, slot)]]

-----------------------------------------------------------------------------
(* Calls on a RenderTile and on its base grid (SpecST, SpecRT) *)

\* no tile is sized oddly by the pixel source
Regular == <<-1, -1>>

\* the tiles the pixel source may size oddly, one per run
OddTiles == {<<2, 0>>}

\* a call: its name and arguments, the exception it raised ("none" when it
\* returned), the boolean it returned and the Clip it returned
Call(op, args, raised, ret) ==
    [op |-> op, args |-> args, raised |-> raised, ret |-> ret,
     clip |-> NewClip]

NoCall == Call("none", <<>>, "none", FALSE)

\* no render task was ever scheduled, no GTask awaits render_finish
NoTask == [state |-> "none", result |-> FALSE]

\* the targets handed to move_to: before, inside and beyond the grid
XTargets == -1 .. MaxDim
YTargets == {-1, 0, 3, MaxDim}

\* render_tile.move_to(x, y)
RT_move_to(x, y) ==
    /\ rt.exists
    /\ LET m == RenderTile_move_to(rt, heap[rt.ref], x, y)
       IN  /\ rt' = m.rt
           /\ call' = Call("move_to", <<x, y>>, "none", m.ret)
    /\ UNCHANGED <<asyncop, tg, tile, sched, viewport, stack, current, heap, render_task, batches,
                   inits, loop_run, source, lastGood>>

\* render_tile.render_texture(), with the outcome of its two allocations
RT_render_texture(memok1, memok2) ==
    /\ rt.exists
    /\ LET r == render_texture(rt, heap[rt.ref].tiles, memok1, memok2)
       IN  /\ rt' = r.rt
           /\ lastGood' = IF r.built
                          THEN [set |-> TRUE, side |-> r.rt.switch]
                          ELSE lastGood
           /\ call' = Call("render_texture", <<>>, r.raised, r.built)
    /\ UNCHANGED <<asyncop, tg, tile, sched, viewport, stack, current, heap, render_task, batches,
                   inits, loop_run, source>>

\* render_tile.compress(pixbuf_cb, scale): TilesGrid.compress on the view
RT_compress ==
    /\ rt.exists
    /\ LET t  == compress_tiles(heap[rt.ref].tiles, RTWindow(rt), source)
           st == stats(t, RTWindow(rt))
       IN  /\ heap' = [heap EXCEPT ![rt.ref].tiles = t]
           /\ rt' = [rt EXCEPT !._u = st[1], !._z = st[2]]
    /\ call' = Call("compress", <<>>, "none", FALSE)
    /\ UNCHANGED <<asyncop, tg, tile, sched, viewport, stack, current, render_task, batches, inits,
                   loop_run, source, lastGood>>

\* grid.compress(pixbuf_cb, scale) on the base grid at ref
Grid_compress(ref) ==
    /\ ref \in DOMAIN heap
    /\ LET t  == compress_tiles(heap[ref].tiles, Cells(heap[ref].shape),
                                source)
           st == stats(t, Cells(heap[ref].shape))
       IN  heap' = [heap EXCEPT ![ref].tiles = t,
                                ![ref]._u = st[1], ![ref]._z = st[2]]
    /\ call' = Call("grid_compress", <<ref>>, "none", FALSE)
    /\ UNCHANGED <<asyncop, tg, tile, sched, viewport, stack, current, rt, render_task, batches, inits,
                   loop_run, source, lastGood>>

\* grid.invalidate() on the base grid at ref
Grid_invalidate(ref) ==
    /\ ref \in DOMAIN heap
    /\ heap' = [heap EXCEPT ![ref].tiles =
                   invalidate_tiles(heap[ref].tiles, Cells(heap[ref].shape))]
    /\ call' = Call("grid_invalidate", <<ref>>, "none", FALSE)
    /\ UNCHANGED <<asyncop, tg, tile, sched, viewport, stack, current, rt, render_task, batches, inits,
                   loop_run, source, lastGood>>

-----------------------------------------------------------------------------
(* SpecST: SuperTile.move_to over every base grid and window shape *)

InitST ==
    /\ viewport = <<0, 0>>
    /\ stack = <<>>
    /\ current = -1
    /\ render_task = NoTask
    /\ batches = <<>>
    /\ loop_run = TRUE
    /\ inits = 0
    /\ source = Regular
    /\ lastGood = [set |-> FALSE, side |-> FALSE]
    /\ call = NoCall
    /\ tile = NewTile
    /\ tg = NoGrid
    /\ sched = NewScheduler
    /\ asyncop = Imported
    /\ \E W \in 1 .. MaxDim, H \in 1 .. MaxDim,
          n \in 0 .. MaxDim + 1, m \in 0 .. MaxDim + 1 :
          /\ heap = (1 :> NewGrid(<<W, H>>))
          /\ rt = NewRenderTile(1, NewGrid(<<W, H>>), <<n, m>>)

NextST == \E x \in XTargets, y \in YTargets : RT_move_to(x, y)

SpecST == InitST /\ [][NextST]_vars

-----------------------------------------------------------------------------
(* SpecIdx: get_tile_indices on every base grid and on every window that  *)
(* SuperTile.move_to leaves on it                                         *)

\* TilesGrid.get_tile_indices(x, y) on a grid or view of that shape and
\* extents <<x0, y0, x1, y1>>, x1 and y1 positive
TilesGrid_get_tile_indices(shape, e, x, y) ==
    LET xc == IF x < e[1] THEN e[1] ELSE x
        yc == IF y < e[2] THEN e[2] ELSE y
    IN  <<IF xc >= e[3] THEN shape[1] ELSE (shape[1] * xc) \div e[3],
          IF yc >= e[4] THEN shape[2] ELSE (shape[2] * yc) \div e[4]>>

\* the points handed to get_tile_indices: before the graphic, on the edges
\* of its tiles, inside them, on its far edge and beyond
Points ==
    {<<-1, -1>>, <<0, 0>>, <<GraphicW \div 4, 0>>,
     <<GraphicW \div 3, GraphicH \div 2>>,
     <<GraphicW \div 2, GraphicH \div 3>>,
     <<(3 * GraphicW) \div 4, GraphicH - 1>>,
     <<GraphicW - 1, (3 * GraphicH) \div 4>>,
     <<GraphicW, GraphicH>>, <<GraphicW + 1, 0>>}

\* the shape and the extents of the base grid ("grid") or of the window
\* on it ("view")
ShapeOf(on) == IF on = "grid" THEN heap[rt.ref].shape ELSE rt.shape
ExtentsOf(on) ==
    IF on = "grid"
    THEN compute_extents(heap[rt.ref].shape, 0, 0, heap[rt.ref].shape)
    ELSE rt.extents

\* grid.get_tile_indices(x, y) or render_tile.get_tile_indices(x, y)
ST_get_tile_indices(on, x, y) ==
    /\ rt.exists
    /\ LET r == TilesGrid_get_tile_indices(ShapeOf(on), ExtentsOf(on), x, y)
       IN  call' = Call("get_tile_indices", <<on, x, y, r[1], r[2]>>,
                        "none", FALSE)
    /\ UNCHANGED <<asyncop, tg, tile, sched, viewport, stack, current, heap, rt,
                   render_task, batches, inits, loop_run, source, lastGood>>

NextIdx ==
    \/ \E x \in XTargets, y \in YTargets : RT_move_to(x, y)
    \/ \E on \in {"grid", "view"}, p \in Points :
          ST_get_tile_indices(on, p[1], p[2])

SpecIdx == InitST /\ [][NextIdx]_vars

-----------------------------------------------------------------------------
(* SpecRT: one RenderTile over one TilesGrid *)

\* the targets handed to move_to: before, inside and beyond the grid
RTTargets == {<<-1, 0>>, <<1, 0>>, <<2, 1>>, <<RTGridShape[1], -1>>}

InitRT ==
    /\ viewport = <<0, 0>>
    /\ stack = <<>>
    /\ current = -1
    /\ render_task = NoTask
    /\ batches = <<>>
    /\ loop_run = TRUE
    /\ inits = 0
    /\ source \in {Regular} \cup OddTiles
    /\ lastGood = [set |-> FALSE, side |-> FALSE]
    /\ call = NoCall
    /\ tile = NewTile
    /\ tg = NoGrid
    /\ sched = NewScheduler
    /\ asyncop = Imported
    /\ heap = (1 :> NewGrid(RTGridShape))
    /\ rt = NewRenderTile(1, NewGrid(RTGridShape), RenderShape)

NextRT ==
    \/ \E t \in RTTargets : RT_move_to(t[1], t[2])
    \/ \E m1 \in BOOLEAN, m2 \in BOOLEAN : RT_render_texture(m1, m2)
    \/ RT_compress
    \/ Grid_compress(1)
    \/ Grid_invalidate(1)

SpecRT == InitRT /\ [][NextRT]_vars

-----------------------------------------------------------------------------
(* SpecTile: one Tile driven through compress and invalidate *)

\* the pixbufs handed to Tile.compress: small ones of every size up to
\* the bound, their buffer as long as a format asks or one byte longer,
\* and two whose declared size overflows a 32-bit int:
\* 715827883 * 3 = 2^31 + 1 and 1431655769 * 3 = 2^32 + 11
SmallPixbufs ==
    UNION {[width : {w}, height : {h},
            len : {Wide(w * h * fs + d) :
                      fs \in gdk_memory_format_sizes, d \in 0 .. 1}] :
           w \in 0 .. MaxPix, h \in 1 .. MaxPix}

HugePixbufs ==
    {[width |-> 715827883, height |-> 1, len |-> <<2 ^ 15, 1>>],
     [width |-> 1431655769, height |-> 1, len |-> Wide(11)]}

\* tile.compress(pixbuf, format)
T_compress(pixbuf, fs, wraps, codec_ok) ==
    /\ LET r == compress(tile, pixbuf, fs, wraps, codec_ok)
       IN  /\ tile' = r.tile
           /\ call' = Call("Tile.compress", <<pixbuf, fs>>, r.raised,
                           r.raised = "none")
    /\ UNCHANGED <<asyncop, tg, sched, viewport, stack, current, heap, rt, render_task,
                   batches, inits, loop_run, source, lastGood>>

\* tile.compress(None, format)
T_compress_none ==
    /\ call' = Call("Tile.compress", <<>>, "ValueError: None", FALSE)
    /\ UNCHANGED <<asyncop, tg, tile, sched, viewport, stack, current, heap, rt,
                   render_task, batches, inits, loop_run, source, lastGood>>

\* tile.invalidate()
T_invalidate ==
    /\ tile' = Tile_invalidate(tile)
    /\ call' = Call("Tile.invalidate", <<>>, "none", FALSE)
    /\ UNCHANGED <<asyncop, tg, sched, viewport, stack, current, heap, rt, render_task,
                   batches, inits, loop_run, source, lastGood>>

InitTile ==
    /\ viewport = <<0, 0>>
    /\ stack = <<>>
    /\ current = -1
    /\ heap = <<>>
    /\ rt = NoRenderTile
    /\ render_task = NoTask
    /\ batches = <<>>
    /\ loop_run = TRUE
    /\ inits = 0
    /\ source = Regular
    /\ lastGood = [set |-> FALSE, side |-> FALSE]
    /\ call = NoCall
    /\ tile = NewTile
    /\ tg = NoGrid
    /\ sched = NewScheduler
    /\ asyncop = Imported

NextTile ==
    \/ \E pixbuf \in SmallPixbufs, fs \in gdk_memory_format_sizes,
          codec_ok \in BOOLEAN : T_compress(pixbuf, fs, FALSE, codec_ok)
    \/ \E pixbuf \in HugePixbufs, fs \in gdk_memory_format_sizes,
          wraps \in BOOLEAN : T_compress(pixbuf, fs, wraps, TRUE)
    \/ T_compress_none
    \/ T_invalidate

SpecTile == InitTile /\ [][NextTile]_vars

-----------------------------------------------------------------------------
(* SpecSched: the Scheduler, given tasks by TilesPool.render_async, by   *)
(* TilesPool.schedule_compression and by direct calls of add, with the   *)
(* steps of its runner loop and of its tasks interleaved in every order  *)

OtherVars == <<viewport, stack, current, heap, rt, render_task, batches,
               inits, source, lastGood, tile, tg, asyncop>>

GridOtherVars == <<viewport, stack, current, heap, rt, render_task, batches,
                   inits, loop_run, source, lastGood, tile, sched, asyncop>>

\* TilesPool.render_async: the pending render task is cancelled, the
\* scheduler stopped, the new render task added at Priority.HIGH and the
\* scheduler run again
S_render_async ==
    /\ sched.client = "pool"
    /\ Len(sched.tasks) < MaxTasks
    /\ LET s1 == IF sched.render_task # 0
                 THEN Task_cancel(sched, sched.render_task) ELSE sched
           s2 == Scheduler_add(Scheduler_stop(s1), HIGH, "render", FALSE)
           s3 == [s2 EXCEPT !.render_task = Len(s2.tasks)]
       IN  sched' = Scheduler_run(s3, FALSE)
    /\ loop_run' = FALSE
    /\ call' = Call("render_async", <<>>, "none", FALSE)
    /\ UNCHANGED OtherVars

\* the loop 'for _co in gen' of schedule_compression over n tiles
RECURSIVE AddUnits(_, _, _)
AddUnits(s, n, kind) ==
    IF n = 0 THEN s
    ELSE AddUnits(Scheduler_add(s, NEXT, kind, FALSE), n - 1, kind)

\* TilesPool.schedule_compression, called by set_rendering when the scale
\* changes: the scheduler is stopped and one task per tile of the new
\* current grid is added at Priority.NEXT, then one per tile of the next
\* grid, at Priority.NEXT too, when two more grids follow the current one
\* in the stack (prefetch)
S_schedule_compression(prefetch) ==
    /\ sched.client = "pool"
    /\ Len(sched.tasks) + (IF prefetch THEN 2 ELSE 1) * UnitsPerBatch
          <= MaxTasks
    /\ LET s1 == Scheduler_stop(sched)
           s2 == AddUnits([s1 EXCEPT !.batch = @ + 1], UnitsPerBatch, "unit")
       IN  sched' = IF prefetch
                    THEN AddUnits(s2, UnitsPerBatch, "prefetch")
                    ELSE s2
    /\ loop_run' = FALSE
    /\ call' = Call("schedule_compression", <<>>, "none", FALSE)
    /\ UNCHANGED OtherVars

\* scheduler.add(co, priority) for a coroutine that suspends once
S_add(priority) ==
    /\ sched.client = "direct"
    /\ Len(sched.tasks) < MaxJobs
    /\ sched' = Scheduler_add(sched, priority, "job", TRUE)
    /\ call' = Call("add", <<>>, "none", FALSE)
    /\ UNCHANGED <<loop_run, OtherVars>>

\* one step of the task tid (Scheduler._scheduled): a new task waits on
\* the event of its queue unless the event is set; a released task awaits
\* the coroutine it wraps, which ends at once or suspends; a suspended one
\* ends
S_task_step(tid) ==
    /\ tid \in DOMAIN sched.tasks
    /\ LET t == sched.tasks[tid]
       IN  /\ ~Done(t)
           /\ t.st # "waiting"
           /\ sched' = [sched EXCEPT !.tasks[tid].st =
                 IF t.st = "new" /\ ~sched.pq[t.pq].event THEN "waiting"
                 ELSE IF t.st = "running" \/ ~t.suspends THEN "done"
                 ELSE "running"]
    /\ call' = Call("task", <<>>, "none", FALSE)
    /\ UNCHANGED <<loop_run, OtherVars>>

\* control(priority) raises ValueError at self.priorities.index(priority):
\* the queue, set and drained, has left the list priorities
control_raises(s, id) ==
    /\ s.pq[id].event
    /\ id # LOW
    /\ {k \in s.pq[id].pendings : ~Done(s.tasks[k])} \cup s.pq[id].queue = {}
    /\ \A k \in DOMAIN s.priorities : s.priorities[k] # id

\* Scheduler.run_forever, from one asyncio.sleep to the next, run by the
\* task s.runner: the scheduler it leaves.  An exception of control ends
\* the task through the finally, whose return drops the exception
run_forever(s) ==
    IF s.runner.st = "new"
    THEN [Event_set(s, s.priorities[1])
             EXCEPT !.runner = [st |-> "sleeping", i |-> 1,
                                p |-> s.priorities[1]]]
    ELSE IF control_raises(s, s.runner.p)
    THEN [Event_clear([s EXCEPT !.pq[s.runner.p].pendings = {}],
                      {s.priorities[1]})
             EXCEPT !.runner = NoRunner]
    ELSE LET s1 == control(s, s.runner.p)
             i  == s.runner.i
         IN  IF i < Len(s1.priorities)
             THEN [s1 EXCEPT !.runner.i = i + 1,
                             !.runner.p = s1.priorities[i + 1]]
             ELSE [clear(s1) EXCEPT !.runner.i = 1, !.runner.p = HIGH]

\* one step of the runner (Scheduler.run_forever), from one
\* asyncio.sleep to the next
S_runner_step ==
    /\ sched.runner.st # "none"
    /\ sched' = run_forever(sched)
    /\ loop_run' = (sched'.runner.st # "none")
    /\ call' = Call("runner", <<>>, "none", FALSE)
    /\ UNCHANGED OtherVars

\* the state TilesPool.__cinit__ leaves: Scheduler.new() then
\* scheduler.run(Run.FOREVER); the tasks then come from the TilesPool or
\* from direct calls of add
InitSched ==
    /\ viewport = <<0, 0>>
    /\ stack = <<>>
    /\ current = -1
    /\ heap = <<>>
    /\ rt = NoRenderTile
    /\ render_task = NoTask
    /\ batches = <<>>
    /\ inits = 0
    /\ source = Regular
    /\ lastGood = [set |-> FALSE, side |-> FALSE]
    /\ tile = NewTile
    /\ tg = NoGrid
    /\ call = NoCall
    /\ loop_run = FALSE
    /\ asyncop = OnePool
    /\ \E c \in {"pool", "direct"} :
          sched = Scheduler_run([NewScheduler EXCEPT !.client = c], FALSE)

NextSched ==
    \/ S_render_async
    \/ \E prefetch \in BOOLEAN : S_schedule_compression(prefetch)
    \/ \E priority \in {HIGH, NEXT, LOW} : S_add(priority)
    \/ \E tid \in 1 .. MaxTasks + MaxJobs : S_task_step(tid)
    \/ S_runner_step

SpecSched == InitSched /\ [][NextSched]_vars

\* the event loop keeps running: the runner task, while it lives, and
\* every task that is ready take their next step
SpecSchedLoop ==
    /\ SpecSched
    /\ WF_vars(S_runner_step)
    /\ \A tid \in 1 .. MaxTasks + MaxJobs : WF_vars(S_task_step(tid))

-----------------------------------------------------------------------------
(* SpecGrid: one TypedGrid, a view sliced from it, a view sliced from     *)
(* that view and one iterator, driven through __getitem__, __setitem__,   *)
(* __delitem__ and __iter__.  A run slices views of views, or gets and    *)
(* sets items through the grid and a view, or iterates them.  Of the      *)
(* arguments of a call only the view is kept: a step is the call of every *)
(* index, slice or item that has this effect.                             *)

\* the shapes given to TypedGrid: small ones, and wide ones on each side of
\* what an unsigned short indexes
SmallShapes == ((0 .. MaxSide) \X (0 .. MaxSide)) \cup {<<-1, 1>>}
WideShapes == {<<256, 256>>, <<257, 256>>, <<USHRT_MAX, 2>>}

\* the bounds given to a slice of columns: from the end, inside and beyond
SliceBounds == -1 .. MaxSide + 1
Slices == SliceBounds \X SliceBounds

\* a few slices: all, none, the first, the last, all but the first
RowSlices == {<<0, MaxSide + 1>>, <<1, 1>>, <<0, 1>>, <<-1, MaxSide + 1>>,
              <<1, MaxSide>>}

\* the rows kept by a view that items are got, set or iterated through:
\* all, all but the first
ViewRows == {<<0, MaxSide + 1>>, <<1, MaxSide + 1>>}

\* the shapes given to SuperTile
SuperShapes == {<<0, 0>>, <<1, 1>>, <<1, 2>>, <<2, 2>>}

\* the indices given to get and set: before, inside and beyond
GridIndices == {-(MaxSide + 1), -MaxSide, -1, 0, 1, MaxSide}
RowIndices == {-1, 0, MaxSide}

\* grid = TypedGrid(pytype, shape)
G_new(shape, use) ==
    /\ tg = NoGrid
    /\ shape \in WideShapes => use = "slices"
    /\ tg' = [(IF use = "tiles" THEN TilesGrid_cinit(shape)
               ELSE TypedGrid_cinit(shape)) EXCEPT !.use = use]
    /\ call' = Call("TypedGrid", shape, tg'.raised, FALSE)
    /\ UNCHANGED GridOtherVars

\* views[k][x, y]
G_getitem(k, x, y) ==
    /\ tg.use = "items"
    /\ k \in DOMAIN tg.views
    /\ LET r == TypedGrid_getitem(tg, tg.views[k], x, y)
       IN  call' = Call("getitem", <<k, r.item>>, r.raised, FALSE)
    /\ UNCHANGED <<tg, GridOtherVars>>

\* views[k][x, y] = item, an item that sits in no other slot
G_setitem(k, x, y, item) ==
    /\ \/ tg.use = "items"
       \/ tg.use = "iter" /\ k = 1 /\ tg.items = {} /\ ~tg.it.live
    /\ k \in DOMAIN tg.views
    /\ LET r == TypedGrid_setitem(tg, tg.views[k], x, y, item)
       IN  /\ \A p, q \in r.items : p[2] = q[2] => p = q
           /\ tg' = [tg EXCEPT !.items = r.items]
           /\ call' = Call("setitem", <<k>>, r.raised, FALSE)
    /\ UNCHANGED GridOtherVars

\* del views[k][x, y]
G_delitem(k, x, y) ==
    /\ tg.use = "items"
    /\ k \in DOMAIN tg.views
    /\ LET r == TypedGrid_delitem(tg, tg.views[k], x, y)
       IN  /\ tg' = [tg EXCEPT !.items = r.items]
           /\ call' = Call("delitem", <<k>>, r.raised, FALSE)
    /\ UNCHANGED GridOtherVars

\* views[k][slx, sly]: the view returned is held as views[k + 1], in place
\* of the views held from there on
G_slice(k, slx, sly) ==
    /\ tg.use # "none"
    /\ k \in DOMAIN tg.views
    /\ \/ tg.use = "slices"
       \/ /\ slx \in RowSlices /\ sly \in ViewRows
          /\ k = 1 \/ tg.use = "tiles"
    /\ ~tg.it.live
    /\ LET r == TypedGrid_getslice(tg, k, slx, sly)
       IN  /\ tg' = IF r.raised = "none"
                    THEN Held(tg, k, r.view, Sliced(tg, k))
                    ELSE tg
           /\ call' = Call("slice", <<k>>, r.raised, FALSE)
    /\ UNCHANGED GridOtherVars

\* views[k][col]: the view returned is held as views[k + 1]
G_column(k, col) ==
    /\ tg.use = "slices"
    /\ k \in DOMAIN tg.views
    /\ LET r == TypedGrid_getitem_col(tg, k, col)
       IN  /\ tg' = IF r.raised = "none"
                    THEN Held(tg, k, r.view, Sliced(tg, k))
                    ELSE tg
           /\ call' = Call("column", <<k, col>>, r.raised, FALSE)
    /\ UNCHANGED GridOtherVars

\* views[k][slx, row]: the view returned is held as views[k + 1]
G_row(k, slx, row) ==
    /\ tg.use = "slices"
    /\ k \in DOMAIN tg.views
    /\ LET r == TypedGrid_getitem_row(tg, k, slx, row)
       IN  /\ tg' = IF r.raised = "none"
                    THEN Held(tg, k, r.view, Sliced(tg, k))
                    ELSE tg
           /\ call' = Call("row", <<k, row>>, r.raised, FALSE)
    /\ UNCHANGED GridOtherVars

\* SuperTile(views[k], shape): the SuperTile built is held as views[k + 1]
G_super(k, shape) ==
    /\ tg.use = "tiles"
    /\ k \in DOMAIN tg.views
    /\ LET r == SuperTile_cinit(tg, k, shape)
       IN  /\ tg' = IF r.raised = "none"
                    THEN Held(tg, k, r.view, r.obj)
                    ELSE tg
           /\ call' = Call("SuperTile", <<k>>, r.raised, FALSE)
    /\ UNCHANGED GridOtherVars

\* iter(views[k])
G_iter(k) ==
    /\ tg.use = "iter"
    /\ k \in DOMAIN tg.views
    /\ ~tg.it.live
    /\ LET r == TypedGridIterator_cinit(tg, k)
       IN  /\ tg' = [tg EXCEPT !.it = r.it]
           /\ call' = Call("iter", <<k>>, r.raised, FALSE)
    /\ UNCHANGED GridOtherVars

\* next(iterator)
G_next ==
    /\ tg.it.live
    /\ tg.it.passes < MaxPasses
    /\ LET r == TypedGridIterator_next(tg, tg.it)
       IN  /\ tg' = [tg EXCEPT !.it = r.it]
           /\ call' = Call("next", <<r.item>>, r.raised, FALSE)
    /\ UNCHANGED GridOtherVars

InitGrid ==
    /\ viewport = <<0, 0>>
    /\ stack = <<>>
    /\ current = -1
    /\ heap = <<>>
    /\ rt = NoRenderTile
    /\ render_task = NoTask
    /\ batches = <<>>
    /\ loop_run = TRUE
    /\ inits = 0
    /\ source = Regular
    /\ lastGood = [set |-> FALSE, side |-> FALSE]
    /\ call = NoCall
    /\ tile = NewTile
    /\ sched = NewScheduler
    /\ asyncop = Imported
    /\ tg = NoGrid

NextGrid ==
    \/ \E shape \in SmallShapes \cup WideShapes,
          use \in {"slices", "items", "iter", "tiles"} : G_new(shape, use)
    \/ \E k \in 1 .. 2, x \in GridIndices, y \in RowIndices :
          \/ G_getitem(k, x, y)
          \/ \E item \in Items : G_setitem(k, x, y, item)
          \/ G_delitem(k, x, y)
    \/ \E k \in 1 .. 2 : G_setitem(k, 0, 0, Stranger)
    \/ \E k \in 1 .. 2, slx \in Slices, sly \in RowSlices :
          G_slice(k, slx, sly)
    \/ \E k \in 1 .. 2, col \in GridIndices : G_column(k, col)
    \/ \E k \in 1 .. 2, slx \in RowSlices, row \in RowIndices :
          G_row(k, slx, row)
    \/ \E k \in 1 .. 2, shape \in SuperShapes : G_super(k, shape)
    \/ \E k \in 1 .. 2 : G_iter(k)
    \/ G_next

SpecGrid == InitGrid /\ [][NextGrid]_vars

-----------------------------------------------------------------------------
(* TilesPool *)

\* viewport.get_transform(graphic.unit), for a viewport whose unit is UNSET
Transform == 1

\* TilesPool.is_ready
is_ready(stk) == Len(stk) > 0

\* a Python list index: i in -len .. len - 1 is valid, negative i counts
\* from the end
ValidIndex(stk, i) == -Len(stk) <= i /\ i < Len(stk)

ListItem(stk, i) == IF i < 0 THEN stk[Len(stk) + i + 1] ELSE stk[i + 1]

\* a make_tiles_grid that never builds a grid
make_tiles_grid_never(vp, scale) == [ret |-> 0, shape |-> <<0, 0>>]

\* TilesPool.make_tiles_grid: the value returned and the shape of the grid
\* appended to the stack when it is positive
make_tiles_grid(vp, scale) ==
    IF vp[1] # 0 /\ vp[2] # 0
    THEN [ret |-> 1,
          shape |-> <<cimax(RenderShape[1],
                            ciceil(GraphicW * scale, vp[1] * Transform)),
                      cimax(RenderShape[2],
                            ciceil(GraphicH * scale, vp[2] * Transform))>>]
    ELSE [ret |-> 0, shape |-> <<0, 0>>]

\* the shapes of the grids TilesPool.__init__ leaves on the stack: one per
\* scale, or none as soon as make_tiles_grid returns 0
RECURSIVE BuildStack(_, _, _)
BuildStack(vp, scales, built) ==
    IF scales = <<>> THEN built
    ELSE LET g == make_tiles_grid(vp, Head(scales))
         IN  IF g.ret > 0
             THEN BuildStack(vp, Tail(scales), Append(built, g.shape))
             ELSE <<>>

\* the k lowest references of the set free, in increasing order
RECURSIVE Lowest(_, _)
Lowest(free, k) ==
    IF k = 0 THEN <<>>
    ELSE LET ref == CHOOSE a \in free : \A b \in free : a <= b
         IN  <<ref>> \o Lowest(free \ {ref}, k - 1)

\* the references given to newly allocated grids: the lowest ones that
\* nothing holds
NewRefs(kept, shapes) ==
    Lowest((1 .. (Len(Scales) + MaxBatches + 1)) \ kept, Len(shapes))

\* the references a scheduled compression unit or the RenderTile still holds
HeldRefs(r, bs) ==
    {bs[b].ref : b \in 1 .. Len(bs)} \cup (IF r.exists THEN {r.ref} ELSE {})

\* TypedGrid.get_center of a view (declared in types.pxd): the indices of
\* its centre cell
get_center(shape) == <<shape[1] \div 2, shape[2] \div 2>>

\* TilesGrid.get_tile_indices on a base grid, for x1, y1 > 0 = x0, y0
get_tile_indices(grid, x, y) ==
    LET e  == compute_extents(grid.shape, 0, 0, grid.shape)
        xc == IF x < e[1] THEN e[1] ELSE x
        yc == IF y < e[2] THEN e[2] ELSE y
    IN  <<IF xc >= e[3] THEN grid.shape[1]
                        ELSE (grid.shape[1] * xc) \div e[3],
          IF yc >= e[4] THEN grid.shape[2]
                        ELSE (grid.shape[2] * yc) \div e[4]>>

\* the batches schedule_compression queues with current = cur: one unit per
\* tile of stack[cur], then of the next grid when two more grids follow
NewBatches(stk, cur) ==
    <<[ref |-> ListItem(stk, cur), next |-> 0]>>
        \o (IF cur < Len(stk) - 2
            THEN <<[ref |-> ListItem(stk, cur + 1), next |-> 0]>>
            ELSE <<>>)

\* a compress_async_generator that also invalidates the grids it walks
ResetStats_invalidate(h, bs) ==
    [ref \in DOMAIN h |->
        IF \E b \in 1 .. Len(bs) : bs[b].ref = ref
        THEN [h[ref] EXCEPT !._u = 0, !._z = 0,
                 !.tiles = invalidate_tiles(@, Cells(h[ref].shape))]
        ELSE h[ref]]

\* compress_async_generator zeroes the statistics of the grids it walks
ResetStats(h, bs) ==
    [ref \in DOMAIN h |->
        IF \E b \in 1 .. Len(bs) : bs[b].ref = ref
        THEN [h[ref] EXCEPT !._u = 0, !._z = 0]
        ELSE h[ref]]

\* the points handed to set_rendering: before, inside and on the far edge
\* of the graphic
PointsX == {-5, 45, GraphicW}
PointsY == {10}
\* the scale indices handed to set_rendering: every grid and one past
DepthArgs == 0 .. Len(Scales)

\* the viewport widget is realized by the toolkit
Realize ==
    /\ viewport = <<0, 0>>
    /\ viewport' = <<ViewW, ViewH>>
    /\ call' = Call("realize", <<>>, "none", FALSE)
    /\ UNCHANGED <<asyncop, tg, tile, sched, stack, current, heap, rt, render_task, batches, inits,
                   loop_run, source, lastGood>>

\* TilesPool.__init__(graphic, viewport, scales, ...)
TilesPool_init ==
    /\ LET shapes == BuildStack(viewport, Scales, <<>>)
           kept   == HeldRefs(rt, batches)
           refs   == NewRefs(kept, shapes)
       IN  /\ shapes # <<>> => inits < MaxInits
           /\ stack' = refs
           /\ inits' = IF shapes # <<>> THEN inits + 1 ELSE inits
           /\ heap' = [ref \in kept \cup {refs[k] : k \in 1 .. Len(refs)} |->
                          IF ref \in kept THEN heap[ref]
                          ELSE LET k == CHOOSE k \in 1 .. Len(refs) :
                                            refs[k] = ref
                               IN  NewGrid(shapes[k])]
    /\ current' = -1
    /\ call' = Call("__init__", <<>>, "none", FALSE)
    /\ UNCHANGED <<asyncop, tg, tile, sched, viewport, rt, render_task, batches, loop_run, source,
                   lastGood>>

\* TilesPool.set_rendering(x, y, depth)
set_rendering(x, y, depth) ==
    LET args == <<>>
    IN  IF ~ValidIndex(stack, current)
        THEN /\ call' = Call("set_rendering", args, "IndexError", FALSE)
             /\ UNCHANGED <<asyncop, tg, tile, sched, viewport, stack, current, heap, rt, render_task,
                            batches, inits, loop_run, source, lastGood>>
        ELSE LET ij == get_tile_indices(heap[ListItem(stack, current)], x, y)
             IN  IF depth # current /\ ~ValidIndex(stack, depth)
                 THEN /\ current' = depth
                      /\ call' = Call("set_rendering", args, "IndexError",
                                      FALSE)
                      /\ UNCHANGED <<asyncop, tg, tile, sched, viewport, stack, heap, rt, render_task,
                                     batches, inits, loop_run, source,
                                     lastGood>>
                 ELSE LET switched == depth # current
                          nb  == IF switched THEN NewBatches(stack, depth)
                                 ELSE <<>>
                          h   == ResetStats(heap, nb)
                          r   == IF switched
                                 THEN NewRenderTile(ListItem(stack, depth),
                                          h[ListItem(stack, depth)],
                                          RenderShape)
                                 ELSE rt
                          c   == get_center(r.shape)
                          m   == RenderTile_move_to(r, h[r.ref],
                                     ij[1] - c[1], ij[2] - c[2])
                      IN  /\ Len(batches) + Len(nb) <= MaxBatches
                          /\ current' = depth
                          /\ heap' = h
                          /\ batches' = batches \o nb
                          /\ loop_run' = (loop_run /\ ~switched)
                          /\ rt' = m.rt
                          /\ call' = Call("set_rendering", args, "none",
                                          m.ret)
                          /\ UNCHANGED <<asyncop, tg, tile, sched, viewport, stack, render_task,
                                         inits, source, lastGood>>

\* TilesPool.render()
render ==
    /\ call' = IF rt.exists
               THEN Call("render", <<>>,
                         IF ValidIndex(stack, current) THEN "TypeError"
                         ELSE "IndexError", FALSE)
               ELSE Call("render", <<>>, "none", FALSE)
    /\ UNCHANGED <<asyncop, tg, tile, sched, viewport, stack, current, heap, rt, render_task, batches,
                   inits, loop_run, source, lastGood>>

\* TilesPool.render_async(cancellable, callback, user_data)
render_async ==
    /\ render_task' = [render_task EXCEPT !.state = "pending"]
    /\ loop_run' = TRUE
    /\ call' = Call("render_async", <<>>, "none", FALSE)
    /\ UNCHANGED <<asyncop, tg, tile, sched, viewport, stack, current, heap, rt, batches, inits,
                   source, lastGood>>

\* the scheduler releases the render task: _render_super_tile_co runs, and
\* on its return _on_render_ready_cb completes the GTask
render_super_tile_co(memok1, memok2) ==
    /\ loop_run
    /\ render_task.state = "pending"
    /\ IF ~rt.exists
       THEN /\ render_task' = [render_task EXCEPT !.state = "failed"]
            /\ call' = Call("render_task", <<>>, "AttributeError", FALSE)
            /\ UNCHANGED <<asyncop, tg, tile, sched, heap, rt>>
       ELSE LET W  == RTWindow(rt)
                t  == compress_tiles(heap[rt.ref].tiles, W, source)
                st == stats(t, W)
                r  == render_texture([rt EXCEPT !._u = st[1], !._z = st[2]],
                                     t, memok1, memok2)
            IN  /\ heap' = [heap EXCEPT ![rt.ref].tiles = t]
                /\ rt' = r.rt
                /\ render_task' =
                      IF r.raised = "none"
                      THEN [state |-> "done", result |-> TRUE]
                      ELSE [render_task EXCEPT !.state = "failed"]
                /\ call' = Call("render_task", <<>>, r.raised, r.built)
    /\ UNCHANGED <<asyncop, tg, tile, sched, viewport, stack, current, batches, inits, loop_run,
                   source, lastGood>>

\* TilesPool.render_finish(result), called back by the completed GTask
render_finish ==
    /\ render_task.result
    /\ render_task' = [render_task EXCEPT !.result = FALSE]
    /\ call' = [Call("render_finish", <<>>, "none", TRUE)
                   EXCEPT !.clip = clip(rt)]
    /\ UNCHANGED <<asyncop, tg, tile, sched, viewport, stack, current, heap, rt, batches, inits,
                   loop_run, source, lastGood>>

\* the scheduler releases the next compression unit, in the order the
\* units were added: TilesGrid._compress_tile_co on the tile the generator
\* yielded
compress_tile_co ==
    /\ loop_run
    /\ render_task.state # "pending"
    /\ batches # <<>>
    /\ LET b  == 1
           bt == batches[b]
           g  == heap[bt.ref]
           c  == <<bt.next \div g.shape[2], bt.next % g.shape[2]>>
           t  == compress_tile(g.tiles[c], source, c[1], c[2])
       IN  /\ heap' = [heap EXCEPT ![bt.ref].tiles[c] = t,
                                   ![bt.ref]._u = @ + t._u,
                                   ![bt.ref]._z = @ + t._z]
           /\ batches' =
                 IF bt.next + 1 = g.shape[1] * g.shape[2]
                 THEN SubSeq(batches, 1, b - 1)
                          \o SubSeq(batches, b + 1, Len(batches))
                 ELSE [batches EXCEPT ![b].next = @ + 1]
           /\ call' = Call("compress_unit", <<>>, "none",
                           FALSE)
    /\ UNCHANGED <<asyncop, tg, tile, sched, viewport, stack, current, rt, render_task, inits,
                   loop_run, source, lastGood>>

\* the state TilesPool(graphic, viewport, scales, ...) leaves: __cinit__
\* then __init__, before or after the viewport is realized
Init ==
    /\ viewport \in {<<0, 0>>, <<ViewW, ViewH>>}
    /\ LET shapes == BuildStack(viewport, Scales, <<>>)
           refs   == NewRefs({}, shapes)
       IN  /\ stack = refs
           /\ inits = IF shapes # <<>> THEN 1 ELSE 0
           /\ heap = [ref \in {refs[k] : k \in 1 .. Len(refs)} |->
                         NewGrid(shapes[ref])]
    /\ current = -1
    /\ rt = NoRenderTile
    /\ render_task = NoTask
    /\ batches = <<>>
    /\ loop_run = TRUE
    /\ source = Regular
    /\ lastGood = [set |-> FALSE, side |-> FALSE]
    /\ call = Call("__init__", <<>>, "none", FALSE)
    /\ tile = NewTile
    /\ tg = NoGrid
    /\ sched = NewScheduler
    /\ asyncop = OnePool

Next ==
    \/ Realize
    \/ TilesPool_init
    \/ \E x \in PointsX, y \in PointsY, depth \in DepthArgs :
          set_rendering(x, y, depth)
    \/ render
    \/ render_async
    \/ \E memok \in BOOLEAN : render_super_tile_co(memok, TRUE)
    \/ render_finish
    \/ compress_tile_co

Spec == Init /\ [][Next]_vars

-----------------------------------------------------------------------------
(* SpecRun: one Scheduler given tasks by direct calls of add, started and  *)
(* stopped by direct calls of run and stop, with the steps of every runner *)
(* task and of the tasks interleaved in every order, while further         *)
(* TilesPools are constructed                                              *)

\* the runner tasks of the scheduler s that are not done
LiveRunners(s) == (IF s.runner.st = "none" THEN 0 ELSE 1) + Len(s.orphans)

\* scheduler.run(Run.FOREVER), or run(Run.LAST) after it
R_run ==
    /\ loop_run \/ sched.runner.st = "none"
                \/ LiveRunners(sched) < MaxRunners
    /\ sched' = Scheduler_run(sched, loop_run)
    /\ call' = Call("run", <<>>, "none", FALSE)
    /\ UNCHANGED <<loop_run, OtherVars>>

\* scheduler.stop()
R_stop ==
    /\ sched' = Scheduler_stop(sched)
    /\ loop_run' = FALSE
    /\ call' = Call("stop", <<>>, "none", FALSE)
    /\ UNCHANGED OtherVars

\* one step of a runner task that self.runner no longer names
\* (Scheduler.run_forever), from one asyncio.sleep to the next
R_orphan_step(k) ==
    /\ k \in DOMAIN sched.orphans
    /\ LET s1 == run_forever([sched EXCEPT !.runner = sched.orphans[k]])
       IN  /\ sched' = [s1 EXCEPT
                 !.runner = sched.runner,
                 !.orphans = SelectSeq([sched.orphans EXCEPT ![k] = s1.runner],
                                       LAMBDA r : r.st # "none")]
           /\ loop_run' = (s1.runner.st # "none")
    /\ call' = Call("runner", <<k>>, "none", FALSE)
    /\ UNCHANGED OtherVars

\* scheduler.add(co, priority), as S_add
R_add(priority) ==
    /\ Len(sched.tasks) < MaxRunJobs
    /\ S_add(priority)

\* TilesPool.__cinit__ of one more TilesPool: Scheduler.new(), then run
\* (Run.FOREVER) on the Scheduler it returned; sched is the Scheduler
\* numbered 1, and of the others only their number is carried
P_cinit ==
    /\ Len(asyncop.pools) < MaxPools
    /\ LET r == Scheduler_new(asyncop)
       IN  /\ asyncop' = Pool_scheduler(asyncop)
           /\ sched' = IF r.ret = 1 THEN Scheduler_run(sched, loop_run)
                       ELSE sched
           /\ call' = Call("TilesPool", <<r.ret>>, "none", FALSE)
    /\ UNCHANGED <<viewport, stack, current, heap, rt, render_task, batches,
                   inits, loop_run, source, lastGood, tile, tg>>

\* the state the first TilesPool.__cinit__ leaves: Scheduler.new() then
\* scheduler.run(Run.FOREVER)
InitRun ==
    /\ viewport = <<0, 0>>
    /\ stack = <<>>
    /\ current = -1
    /\ heap = <<>>
    /\ rt = NoRenderTile
    /\ render_task = NoTask
    /\ batches = <<>>
    /\ inits = 0
    /\ source = Regular
    /\ lastGood = [set |-> FALSE, side |-> FALSE]
    /\ tile = NewTile
    /\ tg = NoGrid
    /\ call = NoCall
    /\ loop_run = FALSE
    /\ asyncop = OnePool
    /\ sched = Scheduler_run([NewScheduler EXCEPT !.client = "direct"], FALSE)

NextRun ==
    \/ R_run
    \/ R_stop
    \/ P_cinit
    \/ \E priority \in {HIGH, NEXT, LOW} : R_add(priority)
    \/ \E tid \in 1 .. MaxRunJobs : S_task_step(tid)
    \/ S_runner_step
    \/ \E k \in 1 .. MaxRunners : R_orphan_step(k)

SpecRun == InitRun /\ [][NextRun]_vars

-----------------------------------------------------------------------------
(* Claims on RenderTile (SpecRT, SpecST) *)

\* every tile of the window of r holds a compressed buffer
AllBuffered(r) == \A c \in RTWindow(r) : heap[r.ref].tiles[c].buffer

\* the two Clips and the switch of the RenderTile are left as they were
ClipsUntouched ==
    /\ rt'.switch = rt.switch
    /\ rt'._clip = rt._clip
    /\ rt'._r_clip = rt._r_clip

\* C1: a render_texture call on a RenderTile that is not valid marks it
\* valid only if every tile of its window holds a compressed buffer at that
\* call; if a tile of the window lacks one the call raises, is_valid stays
\* false, the switch is unchanged and neither Clip is modified.
C1_AllOrNothing ==
    [][(call'.op = "render_texture" /\ ~rt.is_valid) =>
          /\ rt'.is_valid => AllBuffered(rt)
          /\ ~AllBuffered(rt) =>
                /\ call'.raised # "none"
                /\ ~rt'.is_valid
                /\ ClipsUntouched]_vars

\* C1 witness: render_texture has just raised on a window that mixes
\* compressed and uncompressed tiles, while one side holds a texture
C1_Witness ==
    /\ call.op = "render_texture"
    /\ call.raised = "MemoryError"
    /\ ~rt.is_valid
    /\ ~AllBuffered(rt)
    /\ \E c \in RTWindow(rt) : heap[rt.ref].tiles[c].buffer
    /\ lastGood.set

\* C2: on an actual move_to the Clip of the last rendered side is left
\* unmodified, for any number of consecutive actual moves made before
\* render_texture completes on the new side.
C2_PreviousClipKept ==
    [][(call'.op = "move_to" /\ call'.ret /\ lastGood.set) =>
          ClipOf(rt', lastGood.side) = ClipOf(rt, lastGood.side)]_vars

\* the origin and size a texture was rendered for agree with the Clip's
TextureFits(r, c) ==
    c._texture.set =>
        LET e == compute_extents(heap[c._texture.of[1]].shape,
                                 c._texture.of[2], c._texture.of[3], r.shape)
        IN  /\ c._x = e[1]
            /\ c._y = e[2]
            /\ c._w = c._texture.w
            /\ c._h = c._texture.h

\* C3: the Clip handed to the display layer (RenderTile.clip) is never
\* torn: if it carries a texture, the texture was rendered for that Clip's
\* origin and size.
C3_ClipNeverTorn == rt.exists => TextureFits(rt, clip(rt))

\* the pixel width and height of the window of r: the sums of its tiles'
\* pixel sizes along each axis
WindowPixelSize(r) ==
    <<SumOver([i \in 0 .. r.shape[1] - 1 |->
                  heap[r.ref].tiles[<<r.xo + i, r.yo>>]._size[1]],
              0 .. r.shape[1] - 1),
      SumOver([j \in 0 .. r.shape[2] - 1 |->
                  heap[r.ref].tiles[<<r.xo, r.yo + j>>]._size[2]],
              0 .. r.shape[2] - 1)>>

\* a valid RenderTile's current Clip: textured, at the window's extents
\* origin, of the window's pixel size
ValidClip(r) ==
    r.is_valid =>
        /\ clip(r)._texture.set
        /\ clip(r)._x = r.extents[1]
        /\ clip(r)._y = r.extents[2]
        /\ <<clip(r)._w, clip(r)._h>> = WindowPixelSize(r)

\* C4: after any sequence of move_to and render_texture calls, failed and
\* retried renders included, a valid RenderTile's current Clip has a
\* texture, the extents origin of the window and the summed pixel size of
\* its tiles; is_valid becomes true only through a successful
\* render_texture and false on every actual move.
C4_ValidClip ==
    [][(call'.op \in {"move_to", "render_texture"}) =>
          /\ ValidClip(rt')
          /\ (~rt.is_valid /\ rt'.is_valid) =>
                (call'.op = "render_texture" /\ call'.ret)
          /\ (call'.op = "move_to" /\ call'.ret) => ~rt'.is_valid]_vars

\* C5: whenever render_texture fails, repeated failing attempts included,
\* the previously valid Clip is exactly what it was before the attempt.
C5_FailureKeepsClip ==
    [][(call'.op = "render_texture" /\ ~rt.is_valid /\ ~call'.ret
            /\ lastGood.set) =>
          ClipOf(rt', lastGood.side) = ClipOf(rt, lastGood.side)]_vars

\* the window of r lies inside its base grid
InsideGrid(r) ==
    /\ 0 <= r.xo /\ r.xo <= heap[r.ref].shape[1] - r.shape[1]
    /\ 0 <= r.yo /\ r.yo <= heap[r.ref].shape[2] - r.shape[2]

\* C6: for every base grid (W, H) and window (N, M), N <= W and M <= H,
\* after any move_to(x, y) the top-left cell (xo, yo) of the window has
\* 0 <= xo <= W - N and 0 <= yo <= H - M; on a (4, 4) grid a (2, 2) window
\* sent to (3, 3) lands at (2, 2).
C6_WindowInsideGrid ==
    [][call'.op = "move_to" =>
          /\ InsideGrid(rt')
          /\ (heap[rt.ref].shape = <<4, 4>> /\ rt.shape = <<2, 2>>
                /\ call'.args = <<3, 3>>) => (rt'.xo = 2 /\ rt'.yo = 2)]_vars

\* C6 witness: the (2, 2) window of a (4, 4) grid after move_to(3, 3)
C6_Witness ==
    /\ call.op = "move_to"
    /\ call.args = <<3, 3>>
    /\ heap[rt.ref].shape = <<4, 4>>
    /\ rt.shape = <<2, 2>>
    /\ <<rt.xo, rt.yo>> = <<2, 2>>

\* v clamped to 0 .. hi
Clamped(v, hi) == IF v < 0 THEN 0 ELSE IF v > hi THEN hi ELSE v

\* C7: move_to returns true exactly when the clamped target differs from
\* the window's position; when it returns false the position, the switch,
\* is_valid and both Clips are unchanged.
C7_MoveReturn ==
    [][call'.op = "move_to" =>
          /\ call'.ret <=>
                (<<Clamped(call'.args[1],
                           heap[rt.ref].shape[1] - rt.shape[1]),
                   Clamped(call'.args[2],
                           heap[rt.ref].shape[2] - rt.shape[2])>>
                    # <<rt.xo, rt.yo>>)
          /\ ~call'.ret =>
                /\ <<rt'.xo, rt'.yo>> = <<rt.xo, rt.yo>>
                /\ rt'.is_valid = rt.is_valid
                /\ ClipsUntouched]_vars

\* C7 witness: a move_to that returned false on a valid RenderTile whose
\* two Clips both hold a texture
C7_Witness ==
    /\ call.op = "move_to"
    /\ ~call.ret
    /\ rt.is_valid
    /\ rt._clip._texture.set
    /\ rt._r_clip._texture.set

-----------------------------------------------------------------------------
(* Claims on TilesPool (Spec) *)

\* the point (x, y) lies inside the graphic
InGraphic(x, y) == 0 <= x /\ x < GraphicW /\ 0 <= y /\ y < GraphicH

\* the cell of the grid whose tile's rect contains the point (x, y)
TileAt(grid, x, y) ==
    CHOOSE c \in Cells(grid.shape) :
        LET e == TileExtents(grid.shape, c[1], c[2])
        IN  e[1] <= x /\ x < e[3] /\ e[2] <= y /\ y < e[4]

\* C8: after set_rendering(x, y, depth) returns on a ready pool, the
\* RenderTile is a window of stack[depth] that contains the tile of
\* stack[depth] containing the point (x, y), on the first call and when the
\* call switches between grids of different shapes.
C8_WindowHoldsPoint ==
    [][\A x \in PointsX, y \in PointsY, depth \in DepthArgs :
          (set_rendering(x, y, depth) /\ call'.raised = "none"
              /\ InGraphic(x, y)) =>
             /\ rt'.ref = ListItem(stack', depth)
             /\ TileAt(heap'[rt'.ref], x, y) \in RTWindow(rt')]_vars

\* C9: current is -1 or a valid index into stack, and the RenderTile, when
\* present, is a view of stack[current].
C9_CurrentValid ==
    /\ current = -1 \/ (0 <= current /\ current < Len(stack))
    /\ rt.exists =>
          /\ 0 <= current /\ current < Len(stack)
          /\ rt.ref = stack[current + 1]

\* a call that asks for a rendering
RenderingCalls == {"set_rendering", "render"}

-----------------------------------------------------------------------------
(* Claims on Tile (SpecTile) *)

\* the last call was tile.compress(pixbuf, format) with a pixbuf
CompressCall(c) == c.op = "Tile.compress" /\ c.args # <<>>

\* C17: Tile.compress with a buffer whose length differs from
\* width * height * bytes per pixel always fails with the size-mismatch
\* error and leaves every field of the tile unchanged.
C17_MismatchKeepsTile ==
    [][(CompressCall(call')
          /\ TrueProduct(call'.args[1], call'.args[2]) # call'.args[1].len)
       => (call'.raised = "ValueError: missmatch" /\ tile' = tile)]_vars

\* C18: in every reachable state of a Tile, the tile holds a compressed
\* buffer if and only if its uncompressed length and its compressed length
\* are both greater than zero.
C18_BufferIffLengths == tile.buffer <=> (tile._u > 0 /\ tile._z > 0)

\* C19: Tile.compress of a region of 2^31 + 1 bytes whose length matches
\* the declared pixel size and format fails with the oversize error, not
\* with the size-mismatch error.
C19_OversizeRejected ==
    [][(CompressCall(call')
          /\ call'.args[1].len = <<2 ^ 15, 1>>
          /\ TrueProduct(call'.args[1], call'.args[2]) = call'.args[1].len)
       => call'.raised = "ValueError: too large"]_vars

-----------------------------------------------------------------------------
(* Claims on the compression of tiles (Spec, SpecRT) *)

CompressedCells(c) ==
    IF c.op = "grid_compress" THEN Cells(heap[1].shape) ELSE RTWindow(rt)

\* C20: TilesGrid.compress asks the pixel source exactly once for each tile
\* of the view that holds no buffer and never for a tile that holds one;
\* when it returns every tile of the view holds a buffer, and the tiles
\* outside the view are left alone.
C20_CompressOncePerTile ==
    [][call'.op \in {"grid_compress", "compress"} =>
          \A c \in Cells(heap[1].shape) :
              LET t == heap[1].tiles[c]
                  u == heap'[1].tiles[c]
              IN  IF c \in CompressedCells(call')
                  THEN /\ u.buffer
                       /\ u.calls = t.calls + (IF t.buffer THEN 0 ELSE 1)
                  ELSE u = t]_vars

\* C20 witness: the window has moved by one column and compress has run
\* on it: one of its columns held buffers already, the other did not
C20_Witness ==
    /\ call.op = "compress"
    /\ rt.xo = 1
    /\ heap[1].tiles[<<0, 0>>].buffer
    /\ ~heap[1].tiles[<<3, 0>>].buffer
    /\ \A c \in RTWindow(rt) : heap[1].tiles[c].calls = 1

-----------------------------------------------------------------------------
(* Claims on TilesPool.render (Spec) *)

\* C11: TilesPool.render() never raises: without a RenderTile it returns
\* the empty Clip and changes no state; with a RenderTile whose tiles are
\* still uncompressed it returns an empty or a rendered Clip.
C11_RenderNeverRaises ==
    [][call'.op = "render" =>
          /\ call'.raised = "none"
          /\ ~rt.exists =>
                /\ call'.clip = NewClip
                /\ UNCHANGED <<viewport, stack, current, heap, rt,
                               render_task, batches>>]_vars

\* C12: when a RenderTile exists, TilesPool.render() leaves the tiles of
\* the window compressed and the RenderTile rendered, and returns the Clip
\* of the current side, the one render_texture populated, whichever value
\* the switch has.
C12_RenderReturnsCurrentClip ==
    [][(call'.op = "render" /\ rt.exists) =>
          /\ \A c \in RTWindow(rt') : heap'[rt'.ref].tiles[c].buffer
          /\ rt'.is_valid
          /\ call'.clip = clip(rt')
          /\ call'.clip._texture.set]_vars

-----------------------------------------------------------------------------
(* Claims on the Scheduler (SpecSched) *)

\* the render tasks that can still run their coroutine
LiveRenders ==
    {k \in DOMAIN sched.tasks :
        sched.tasks[k].kind = "render" /\ ~Done(sched.tasks[k])}

\* the task k begins, in this step, to run the coroutine it wraps
Starts(k) ==
    /\ k \in DOMAIN sched.tasks
    /\ Unstarted(sched.tasks[k])
    /\ sched'.tasks[k].st \in {"running", "done"}

\* C13: a render request superseded by a newer one before it has run is
\* cancelled and never runs (it never touches the RenderTile), and at any
\* time at most one render request, the latest, can still run
\* render_texture, for every interleaving of render_async, set_rendering
\* (schedule_compression) and scheduler steps.
C13_SupersededCancelled ==
    /\ [](Cardinality(LiveRenders) <= 1
             /\ LiveRenders \subseteq {sched.render_task})
    /\ [][\A k \in DOMAIN sched.tasks :
             /\ (call'.op = "render_async" /\ k \in LiveRenders) =>
                   sched'.tasks[k].st = "cancelled"
             /\ sched.tasks[k].st = "cancelled" =>
                   sched'.tasks[k].st = "cancelled"
             /\ (Starts(k) /\ sched.tasks[k].kind = "render") =>
                   k = sched.render_task]_vars

\* C13 witness: a render request was cancelled after the runner had
\* released it, and the request that superseded it has run
C13_Witness ==
    /\ sched.render_task # 0
    /\ sched.tasks[sched.render_task].st = "done"
    /\ \E k \in DOMAIN sched.tasks :
          /\ sched.tasks[k].kind = "render"
          /\ sched.tasks[k].st = "cancelled"
          /\ k \in sched.pq[HIGH].pendings

\* C14: after a scale switch no unit of the stale batch starts while a unit
\* of the batch scheduled for the new current grid is still waiting.
C14_NewBatchFirst ==
    [][\A k \in DOMAIN sched.tasks :
          (Starts(k) /\ sched.tasks[k].kind = "unit") =>
             ~\E j \in DOMAIN sched.tasks :
                 /\ sched.tasks[j].kind = "unit"
                 /\ sched.tasks[j].batch > sched.tasks[k].batch
                 /\ Unstarted(sched.tasks[j])]_vars

\* the level of a queue: HIGH first, then the levels added by
\* Priority.NEXT in the order of their creation, LOW last
Level(id) == IF id = LOW THEN MaxTasks + MaxJobs + 1 ELSE id

\* C15: a task queued at a lower priority level never starts while a task
\* of a higher level is still queued or pending (not done), for every
\* interleaving of add() calls with the runner loop.
C15_HigherLevelsDrained ==
    [][\A k \in DOMAIN sched.tasks :
          Starts(k) =>
             \A j \in DOMAIN sched.tasks :
                 Level(sched.tasks[j].pq) < Level(sched.tasks[k].pq) =>
                    Done(sched.tasks[j])]_vars

-----------------------------------------------------------------------------
(* Claims on TypedGrid (SpecGrid) *)

\* the cell of the base grid under the cell (i, l) of the view v
BaseCell(v, i, l) == <<v.xo + i, v.yo + l>>

\* the cell of the view v that the index (x, y) names, negative indices
\* counting from the end of the view
Named(v, x, y) ==
    <<IF x < 0 THEN v.w + x ELSE x, IF y < 0 THEN v.h + y ELSE y>>

\* the item seen at the cell (i, l) of the view at j of the grid g
Seen(g, j, i, l) == TypedGrid_getitem(g, g.views[j], i, l).item

\* the views agree with the base grid after the item was put, through the
\* view at k, in the cell named (x, y)
Aliased(k, x, y, item) ==
    LET c == Named(tg.views[k], x, y)
        b == BaseCell(tg.views[k], c[1], c[2])
    IN  \A j \in DOMAIN tg.views :
           \A i \in 0 .. tg.views[j].w - 1, l \in 0 .. tg.views[j].h - 1 :
              Seen(tg', j, i, l) =
                 IF BaseCell(tg.views[j], i, l) = b THEN item
                 ELSE Seen(tg, j, i, l)

InRange(sl, len) == 0 <= sl[1] /\ sl[1] <= sl[2] /\ sl[2] <= len

\* the range of r2, a slice of the slice r1
Compose(r1, r2) == <<r1[1] + r2[1], r1[1] + r2[2]>>

\* C27: slicing composes: with in-range slices, grid[r1][r2] has the shape
\* and the backing cells, in the same order, of the single slice of grid
\* with the composed range.
C27_SlicesCompose ==
    [][(/\ tg.use = "slices"
        /\ call'.op = "slice"
        /\ call'.args = <<2>>
        /\ ~tg.views[1].none) =>
          \A r1x \in Slices, r1y \in RowSlices :
             (/\ InRange(r1x, tg.views[1].w)
              /\ InRange(r1y, tg.views[1].h)
              /\ tg.views[2] = get_slice(tg, 1, r1x, r1y)) =>
                \A r2x \in Slices, r2y \in RowSlices :
                   (/\ InRange(r2x, tg.views[2].w)
                    /\ InRange(r2y, tg.views[2].h)
                    /\ G_slice(2, r2x, r2y)) =>
                      /\ call'.raised = "none"
                      /\ tg'.views[3] =
                            get_slice(tg, 1, Compose(r1x, r2x),
                                      Compose(r1y, r2y))]_vars

\* (x, y) names a cell of the view v
InView(v, x, y) ==
    ~v.none /\ -v.w <= x /\ x < v.w /\ -v.h <= y /\ y < v.h

\* C28: on a grid or view of shape (W, H), get(x, y) and set(x, y, item)
\* succeed exactly when -W <= x < W and -H <= y < H, negative indices
\* counting from the end of the view; any other index fails with
\* IndexError and leaves the backing store as it was.
C28_IndexInRange ==
    [][call'.op \in {"getitem", "setitem"} =>
       \A x \in GridIndices, y \in RowIndices :
          LET k == call'.args[1]
          IN  /\ G_getitem(k, x, y) =>
                    /\ call'.raised = "none" <=> InView(tg.views[k], x, y)
                    /\ call'.raised \in {"none", "IndexError"}
                    /\ call'.raised = "none" =>
                          call'.args[2] =
                             LET c == Named(tg.views[k], x, y)
                                 b == BaseCell(tg.views[k], c[1], c[2])
                             IN  Seen(tg, 1, b[1], b[2])
              /\ \A item \in Items :
                    G_setitem(k, x, y, item) =>
                       /\ call'.raised = "none" <=> InView(tg.views[k], x, y)
                       /\ call'.raised \in {"none", "IndexError"}
                       /\ call'.raised # "none" => tg'.items = tg.items]_vars

\* C28 witness: a set through a view smaller than the grid has failed on
\* a grid that holds an item
C28_Witness ==
    /\ call.op = "setitem"
    /\ call.args = <<2>>
    /\ call.raised = "IndexError"
    /\ tg.views[2].w > 0
    /\ tg.views[2].w < tg.views[1].w
    /\ tg.items # {}

\* C29: for every shape (width, height) with 1 <= width, height <= 65535
\* the construction of a TypedGrid succeeds and yields width * height
\* empty slots.
C29_EveryShapeBuilds ==
    (/\ call.op = "TypedGrid"
     /\ 1 <= call.args[1] /\ call.args[1] <= USHRT_MAX
     /\ 1 <= call.args[2] /\ call.args[2] <= USHRT_MAX) =>
        /\ call.raised = "none"
        /\ tg.views = <<Mview(0, 0, call.args[1], call.args[2])>>
        /\ tg.items = {}

\* the slots of the rows j, j + 1, ... of the view v, one row after the
\* other
RECURSIVE RowsFrom(_, _, _)
RowsFrom(g, v, j) ==
    IF j >= v.h THEN <<>>
    ELSE [i \in 1 .. v.w |-> CellIndex(g.shape, v.xo + i - 1, v.yo + j)]
            \o RowsFrom(g, v, j + 1)

\* C30: iterating a grid or view yields exactly the items inside the
\* view's bounds, row after row, and iterating again after the end yields
\* the same.
C30_RowMajorIteration ==
    /\ call.op = "iter" => call.raised = "none"
    /\ (call.op = "next" /\ call.raised = "StopIteration") =>
          tg.it.out = RowsFrom(tg, tg.views[tg.it.view], 0)

-----------------------------------------------------------------------------
(* Claims on Tile.invalidate (SpecTile) *)

\* C23: Tile.invalidate is idempotent and always safe: called in any state
\* of the tile it raises nothing and leaves the tile with no buffer and
\* with uncompressed length, compressed length and ratio all zero, and a
\* second call changes nothing.
C23_InvalidateIdempotent ==
    [][call'.op = "Tile.invalidate" =>
          /\ call'.raised = "none"
          /\ ~tile'.buffer
          /\ tile'._u = 0 /\ tile'._z = 0 /\ tile'._r[1] = 0
          /\ Tile_invalidate(tile') = tile'
          /\ call.op = "Tile.invalidate" => tile' = tile]_vars

\* C23 witness: a tile invalidated after a pixbuf was compressed into it
C23_Witness ==
    /\ call.op = "Tile.invalidate"
    /\ tile._size # <<0, 0>>
    /\ tile.format_size # 0

-----------------------------------------------------------------------------
(* Claims on get_tile_indices (SpecIdx) *)

\* the last call was get_tile_indices
IndicesCall == call.op = "get_tile_indices"

\* C24: for every non-empty TilesGrid and every point (x, y), on or beyond
\* the far edges of the extents and before the origin included,
\* get_tile_indices returns (ix, iy) with 0 <= ix < shape.x and
\* 0 <= iy < shape.y.
C24_IndicesInShape ==
    IndicesCall =>
        LET shape == ShapeOf(call.args[1])
        IN  /\ 0 <= call.args[4] /\ call.args[4] < shape[1]
            /\ 0 <= call.args[5] /\ call.args[5] < shape[2]

\* C25: for every TilesGrid or view of one and every point inside its
\* extents, get_tile_indices returns the indices, relative to that grid
\* or view, of the tile whose rect holds the point:
\* ix = floor(shape.x * (x - x0) / (x1 - x0)), and the same for y.
C25_IndicesOfHoldingTile ==
    IndicesCall =>
        LET shape == ShapeOf(call.args[1])
            e     == ExtentsOf(call.args[1])
            x     == call.args[2]
            y     == call.args[3]
        IN  (e[1] <= x /\ x < e[3] /\ e[2] <= y /\ y < e[4]) =>
               /\ call.args[4] = (shape[1] * (x - e[1])) \div (e[3] - e[1])
               /\ call.args[5] = (shape[2] * (y - e[2])) \div (e[4] - e[2])

-----------------------------------------------------------------------------
(* Claims on the buffers and the totals of the grids of a TilesPool (Spec) *)

\* the calls that are not to drop or alter a compressed buffer:
\* set_rendering (with RenderTile.move_to and RenderTile.invalidate in it),
\* render, render_async, the render task and its callback, and the
\* compression units, stopped and resumed between units
KeepingCalls ==
    {"set_rendering", "render", "render_async", "render_task",
     "render_finish", "compress_unit"}

\* C22: a tile's compressed buffer is dropped only by Tile.invalidate and
\* TilesGrid.invalidate: set_rendering (scale switches included),
\* RenderTile.move_to, RenderTile.invalidate, render, render_async and a
\* compression batch stopped between two units leave every tile that
\* holds a buffer as it was.
C22_BuffersKept ==
    [][call'.op \in KeepingCalls =>
          \A ref \in DOMAIN heap : \A c \in DOMAIN heap[ref].tiles :
             heap[ref].tiles[c].buffer =>
                /\ ref \in DOMAIN heap'
                /\ heap'[ref].tiles[c] = heap[ref].tiles[c]]_vars

\* the grid at ref holds a compressed tile
HoldsBuffer(ref) ==
    \E c \in DOMAIN heap[ref].tiles : heap[ref].tiles[c].buffer

\* C22 witness: set_rendering has stopped the scheduler and queued a batch
\* for the current grid while that grid and another one hold compressed
\* tiles
C22_Witness ==
    /\ call.op = "set_rendering"
    /\ ~loop_run
    /\ batches # <<>>
    /\ batches[1].next = 0
    /\ ValidIndex(stack, current)
    /\ batches[1].ref = ListItem(stack, current)
    /\ HoldsBuffer(batches[1].ref)
    /\ \E ref \in DOMAIN heap : ref # batches[1].ref /\ HoldsBuffer(ref)

\* the cells of the grid at ref whose tile holds a buffer
Buffered(ref) == {c \in DOMAIN heap[ref].tiles : heap[ref].tiles[c].buffer}

\* C21: after a compression pass that stopped early, and after batches
\* scheduled more than once for a grid, the total uncompressed and
\* compressed sizes of the grid equal the sums of those sizes over its
\* tiles that hold a buffer.
C21_TotalsOverBuffers ==
    call.op = "compress_unit" =>
        \A ref \in DOMAIN heap :
           <<heap[ref]._u, heap[ref]._z>> =
              stats(heap[ref].tiles, Buffered(ref))

-----------------------------------------------------------------------------
(* Claims on the integer indexing of a TypedGrid (SpecGrid) *)

\* C31: for every integer col with -W <= col < W, grid[col] is a view of
\* shape (1, H) on the column col, negative col counting from the end, and
\* for every integer row with -H <= row < H, grid[a:b, row] is a view of
\* second extent 1 on that row: the two dimensions are preserved.
C31_IntegerIndexKeepsDims ==
    /\ (call.op = "column" /\ ~tg.views[call.args[1]].none) =>
          LET v   == tg.views[call.args[1]]
              col == call.args[2]
          IN  (-v.w <= col /\ col < v.w) =>
                 /\ call.raised = "none"
                 /\ tg.views[call.args[1] + 1] =
                       Mview(v.xo + Named(v, col, 0)[1], v.yo, 1, v.h)
    /\ (call.op = "row" /\ Truth(tg.views[call.args[1]])) =>
          LET v   == tg.views[call.args[1]]
              row == call.args[2]
          IN  (-v.h <= row /\ row < v.h) =>
                 /\ call.raised = "none"
                 /\ tg.views[call.args[1] + 1].h = 1
                 /\ tg.views[call.args[1] + 1].yo =
                       v.yo + Named(v, 0, row)[2]

-----------------------------------------------------------------------------
\* C32: every view references the grid that owns the items, whether it was
\* sliced from a grid, sliced from a view, or built as a SuperTile over a
\* grid that is itself a view: the base of a view's base is that same base
C32_ViewsReferenceBase ==
    \A k \in DOMAIN tg.objs :
        tg.objs[tg.objs[k]._ref]._ref = tg.objs[k]._ref

-----------------------------------------------------------------------------
(* SpecUnit: Unit.get_transform and Measurable.get_transform, for every   *)
(* pair of units.  A coefficient is carried as the fraction <<n, d>>.     *)

\* class Unit(Enum)
Units == {"UNSET", "MILLIMETER", "PS_POINT", "INCH", "PIXEL"}

\* the dpi given: none, one, and three of screens and printers
Dpis == {0, 1, 72, 96, 300}

ps2inch_transform == <<1, 72>>
inch2ps_transform == <<72, 1>>
inch2mm_transform == <<254, 10>>
mm2inch_transform == <<10, 254>>
ps2mm_transform == <<254, 720>>
mm2ps_transform == <<720, 254>>

\* what a cdef double function returns when it ends without a return
NoReturn == <<0, 1>>

\* return c, and dpi * c
Returned(c) == {[raised |-> "none", value |-> c]}
Scaled(dpi, c) == <<dpi * c[1], c[2]>>

\* return 1.0 / c: a division by zero raises ZeroDivisionError, which a
\* cdef function declared without an except value either hands to its
\* caller or reports and swallows, returning 0.0
Inverse(c) ==
    IF c[1] = 0
    THEN {[raised |-> "ZeroDivisionError", value |-> NoReturn],
          [raised |-> "none", value |-> NoReturn]}
    ELSE Returned(<<c[2], c[1]>>)

\* transform(unit1, unit2, dpi): the outcomes it can have
transform(unit1, unit2, dpi) ==
    IF unit1 = "PS_POINT"
    THEN IF unit2 = "MILLIMETER" THEN Returned(ps2mm_transform)
         ELSE IF unit2 = "INCH" THEN Returned(ps2inch_transform)
         ELSE IF unit2 = "PIXEL"
         THEN Returned(Scaled(dpi, ps2inch_transform))
         ELSE Returned(NoReturn)
    ELSE IF unit1 = "INCH"
    THEN IF unit2 = "MILLIMETER" THEN Returned(inch2mm_transform)
         ELSE IF unit2 = "PS_POINT" THEN Returned(inch2ps_transform)
         ELSE IF unit2 = "PIXEL" THEN Returned(<<dpi, 1>>)
         ELSE Returned(NoReturn)
    ELSE IF unit1 = "MILLIMETER"
    THEN IF unit2 = "INCH" THEN Returned(mm2inch_transform)
         ELSE IF unit2 = "PS_POINT" THEN Returned(mm2ps_transform)
         ELSE IF unit2 = "PIXEL"
         THEN Returned(Scaled(dpi, mm2inch_transform))
         ELSE Returned(NoReturn)
    ELSE IF unit1 = "PIXEL"
    THEN IF unit2 = "INCH" THEN Inverse(<<dpi, 1>>)
         ELSE IF unit2 = "PS_POINT"
         THEN Inverse(Scaled(dpi, ps2inch_transform))
         ELSE IF unit2 = "MILLIMETER"
         THEN Inverse(Scaled(dpi, mm2inch_transform))
         ELSE Returned(NoReturn)
    ELSE Returned(<<1, 1>>)

\* unit.get_transform(other, dpi)
U_get_transform(unit, other, dpi) ==
    /\ \E r \in transform(unit, other, dpi) :
          call' = Call("Unit.get_transform", <<unit, other, dpi, r.value>>,
                       r.raised, FALSE)
    /\ UNCHANGED <<tg, GridOtherVars>>

\* Measurable(unit=unit, dpi=dpi).get_transform(other)
M_get_transform(unit, dpi, other) ==
    /\ \E r \in transform(unit, other, dpi) :
          call' = Call("Measurable.get_transform",
                       <<unit, other, dpi, r.value>>, r.raised, FALSE)
    /\ UNCHANGED <<tg, GridOtherVars>>

InitUnit ==
    /\ viewport = <<0, 0>>
    /\ stack = <<>>
    /\ current = -1
    /\ heap = <<>>
    /\ rt = NoRenderTile
    /\ render_task = NoTask
    /\ batches = <<>>
    /\ loop_run = TRUE
    /\ inits = 0
    /\ source = Regular
    /\ lastGood = [set |-> FALSE, side |-> FALSE]
    /\ call = NoCall
    /\ tile = NewTile
    /\ sched = NewScheduler
    /\ asyncop = Imported
    /\ tg = NoGrid

NextUnit ==
    \/ \E unit \in Units, other \in Units, dpi \in Dpis :
          U_get_transform(unit, other, dpi)
    \/ \E unit \in Units, other \in Units, dpi \in Dpis :
          M_get_transform(unit, dpi, other)

SpecUnit == InitUnit /\ [][NextUnit]_vars

-----------------------------------------------------------------------------
\* C33: get_transform returns 1.0 when the two units are the same or when
\* either of them is UNSET, whatever the dpi
C33_SameOrUnsetIsOne ==
    call.op \in {"Unit.get_transform", "Measurable.get_transform"} =>
        LET u == call.args[1]
            v == call.args[2]
        IN  (u = v \/ u = "UNSET" \/ v = "UNSET") =>
                call.raised = "none" /\ call.args[4] = <<1, 1>>

-----------------------------------------------------------------------------
\* C34: a render_texture attempt that fails leaves the double-buffer switch
\* where it was before the attempt, so that a retry rebuilds the same side
\* and not the side holding the last rendered Clip
C34_FailureKeepsSwitch ==
    [][(call'.op = "render_texture" /\ ~rt.is_valid /\ ~call'.ret) =>
          rt'.switch = rt.switch]_vars

-----------------------------------------------------------------------------
(* SpecWin: render_texture on windows of every shape.  A byte of a tile's *)
(* pixbuf is <<x, y, k>>: the k-th byte handed by the pixel source for    *)
(* the tile (x, y); the codec gives back the bytes it was given.          *)

\* the base grid of SpecWin
WinGridShape == <<MaxWin + 1, MaxWin>>

\* a pixel source whose tiles differ in size from column to column and
\* from row to row
Varied == <<-2, -2>>

\* the Pixbuf the pixel source returns for tile (x, y)
WinPixbuf(src, x, y) ==
    IF src = Varied
    THEN [width |-> 1 + (x % 2), height |-> 1 + (y % 2),
          len |-> (1 + (x % 2)) * (1 + (y % 2)) * FormatSize]
    ELSE Pixbuf(src, x, y)

\* the tiles after TilesGrid.compress over the cells W, with that source
WinCompress(tiles, W, src) ==
    [c \in DOMAIN tiles |->
        IF c \in W /\ ~tiles[c].buffer
        THEN [Tile_compress(tiles[c], WinPixbuf(src, c[1], c[2]))
                 EXCEPT !.calls = @ + 1]
        ELSE tiles[c]]

\* what malloc leaves in a byte that was never written
Junk == <<-1, -1, -1>>

\* blosc.decompress_ptr of the buffer of the tile t at cell c
Decompressed(c, t) == [k \in 1 .. t.u_shape |-> <<c[1], c[2], k - 1>>]

\* vbands[x] once the tiles of the column x of the window, from row y on,
\* are decompressed one after the other
RECURSIVE Band(_, _, _, _)
Band(r, tiles, x, y) ==
    IF y >= r.shape[2] THEN <<>>
    ELSE LET c == <<r.xo + x, r.yo + y>>
         IN  Decompressed(c, tiles[c]) \o Band(r, tiles, x, y + 1)

\* a copy_vband that stacks the bands one after the other
copy_vband_stacked(vband, buffer, rows, vband_width, buf_width, x_offset) ==
    [i \in DOMAIN buffer |->
        LET o == i - 1 - (x_offset * rows)
        IN  IF 0 <= o /\ o < vband_width * rows /\ o + 1 \in DOMAIN vband
            THEN vband[o + 1]
            ELSE buffer[i]]

\* RenderTile.copy_vband: the buffer, a sequence of bytes, after the rows
\* of vband are copied at x_offset in its rows
copy_vband(vband, buffer, rows, vband_width, buf_width, x_offset) ==
    [i \in DOMAIN buffer |->
        LET o == i - 1
            y == o \div buf_width
            b == (o % buf_width) - x_offset
        IN  IF y < rows /\ 0 <= b /\ b < vband_width
            THEN IF (vband_width * y) + b + 1 \in DOMAIN vband
                 THEN vband[(vband_width * y) + b + 1]
                 ELSE Junk
            ELSE buffer[i]]

\* the byte width of the column x of the window
BandWidth(r, tiles, x) ==
    tiles[<<r.xo + x, r.yo>>]._size[1]
        * tiles[<<r.xo + x, r.yo>>].format_size

\* self.buffer once fill_buffer has merged the columns x .. N - 1, offset
\* being the byte width of the columns before x
RECURSIVE Merge(_, _, _, _, _)
Merge(r, tiles, buffer, x, offset) ==
    IF x >= r.shape[1] THEN buffer
    ELSE LET rows == SumOver([j \in 0 .. r.shape[2] - 1 |->
                                 tiles[<<r.xo, r.yo + j>>]._size[2]],
                             0 .. r.shape[2] - 1)
             buf_width == SumOver([i \in 0 .. r.shape[1] - 1 |->
                                      BandWidth(r, tiles, i)],
                                  0 .. r.shape[1] - 1)
             ww == BandWidth(r, tiles, x)
         IN  Merge(r, tiles,
                   copy_vband(Band(r, tiles, x, 0), buffer, rows, ww,
                              buf_width, offset),
                   x + 1, offset + ww)

\* the bytes fill_buffer leaves in self.buffer, allocated by
\* allocate_buffer with the length sh
Merged(r, tiles) ==
    LET sh == SumOver([c \in RTWindow(r) |-> tiles[c].u_shape], RTWindow(r))
    IN  Merge(r, tiles, [i \in 1 .. sh |-> Junk], 0, 0)

\* RenderTile.render_texture on a window of any shape.  On a window one
\* tile high fill_buffer reads the tile below the window,
\* getitem_at(x, y + 1) with y = 0, which raises IndexError; fill_buffer is
\* a cdef int function, and the build either hands the error to
\* render_texture (handed) or reports it and returns 0
render_window(r, tiles, memok1, memok2, handed) ==
    LET a == allocate_buffer(r, tiles, memok1)
    IN  IF ~r.is_valid /\ a.ret >= 0 /\ r.shape[2] < 2
        THEN IF handed
             THEN [rt |-> a.rt, raised |-> "IndexError", built |-> FALSE,
                   bytes |-> <<>>]
             ELSE [rt |-> RenderTile_invalidate(a.rt), raised |-> "none",
                   built |-> FALSE, bytes |-> <<>>]
        ELSE LET t == render_texture(r, tiles, memok1, memok2)
             IN  [rt |-> t.rt, raised |-> t.raised, built |-> t.built,
                  bytes |-> IF t.built THEN Merged(a.rt, tiles) ELSE <<>>]

\* render_tile.render_texture(): the call carries the bytes of the texture
\* built and whether both allocations succeeded.  Each outcome is taken
\* once: the second allocation is not reached when the first fails, and
\* no error is handed on by a window two tiles high
W_render_texture(memok1, memok2, handed) ==
    /\ rt.exists
    /\ handed => rt.shape[2] < 2
    /\ ~memok1 => memok2
    /\ LET r == render_window(rt, heap[rt.ref].tiles, memok1, memok2, handed)
       IN  /\ rt' = r.rt
           /\ call' = Call("render_texture", <<r.bytes, memok1 /\ memok2>>,
                           r.raised, r.built)
    /\ UNCHANGED <<asyncop, tg, tile, sched, viewport, stack, current, heap,
                   render_task, batches, inits, loop_run, source, lastGood>>

\* grid.compress(pixbuf_cb, scale) on the base grid
W_compress ==
    /\ heap' = [heap EXCEPT ![1].tiles =
                   WinCompress(@, Cells(heap[1].shape), source)]
    /\ call' = Call("grid_compress", <<1>>, "none", FALSE)
    /\ UNCHANGED <<asyncop, tg, tile, sched, viewport, stack, current, rt,
                   render_task, batches, inits, loop_run, source, lastGood>>

\* the targets handed to move_to
WinTargets == {<<0, 0>>, <<1, 0>>}

InitWin ==
    /\ viewport = <<0, 0>>
    /\ stack = <<>>
    /\ current = -1
    /\ render_task = NoTask
    /\ batches = <<>>
    /\ loop_run = TRUE
    /\ inits = 0
    /\ source \in {Regular, Varied} \cup OddTiles
    /\ lastGood = [set |-> FALSE, side |-> FALSE]
    /\ call = NoCall
    /\ tile = NewTile
    /\ tg = NoGrid
    /\ sched = NewScheduler
    /\ asyncop = Imported
    /\ heap = (1 :> NewGrid(WinGridShape))
    /\ \E n \in 1 .. MaxWin, m \in 1 .. MaxWin :
          rt = NewRenderTile(1, NewGrid(WinGridShape), <<n, m>>)

NextWin ==
    \/ \E t \in WinTargets : RT_move_to(t[1], t[2])
    \/ \E m1 \in BOOLEAN, m2 \in BOOLEAN, handed \in BOOLEAN :
          W_render_texture(m1, m2, handed)
    \/ W_compress
    \/ Grid_invalidate(1)

SpecWin == InitWin /\ [][NextWin]_vars

-----------------------------------------------------------------------------
\* the tile at column i and row j of the window
WinTile(i, j) == heap[rt.ref].tiles[<<rt.xo + i, rt.yo + j>>]

\* the byte width of the tile at (i, j) of the window
ByteWidth(i, j) == WinTile(i, j)._size[1] * WinTile(i, j).format_size

\* the sum of the heights of the tiles above (i, j) and of the byte widths
\* of the tiles to its left
HeightAbove(i, j) ==
    SumOver([q \in 0 .. j - 1 |-> WinTile(i, q)._size[2]], 0 .. j - 1)
WidthLeft(i, j) ==
    SumOver([p \in 0 .. i - 1 |-> ByteWidth(p, j)], 0 .. i - 1)

\* C35: when render_texture succeeds on a window whose tiles have
\* consistent sizes, the merged buffer is the row-major image of the
\* window: the bytes of the pixel row r of the tile at column i and row j
\* lie in the destination row (heights of the tiles above) + r, at the byte
\* offset (byte widths of the columns to its left), and the buffer is as
\* long as the tiles' uncompressed lengths together
C35_RowMajorImage ==
    (call.op = "render_texture" /\ call.ret) =>
        LET buf   == call.args[1]
            width == WidthLeft(rt.shape[1], 0)
        IN  /\ Len(buf) = SumOver([c \in RTWindow(rt) |->
                                      heap[rt.ref].tiles[c].u_shape],
                                  RTWindow(rt))
            /\ \A i \in 0 .. rt.shape[1] - 1, j \in 0 .. rt.shape[2] - 1 :
                  \A r \in 0 .. WinTile(i, j)._size[2] - 1,
                     b \in 0 .. ByteWidth(i, j) - 1 :
                     buf[((HeightAbove(i, j) + r) * width)
                             + WidthLeft(i, j) + b + 1]
                         = <<rt.xo + i, rt.yo + j,
                             (r * ByteWidth(i, j)) + b>>

\* C35 witness: a texture built on a window two tiles wide and two high,
\* whose columns differ in width and whose rows differ in height
C35_Witness ==
    /\ call.op = "render_texture"
    /\ call.ret
    /\ rt.shape = <<2, 2>>
    /\ WinTile(0, 0)._size = <<1, 1>>
    /\ WinTile(1, 1)._size = <<2, 2>>
    /\ Len(call.args[1]) = 27

\* every tile of the window holds a buffer, and their sizes agree down each
\* column and along each row
Renderable(r, tiles) ==
    /\ \A c \in RTWindow(r) : tiles[c].buffer
    /\ Mergeable(r, tiles)

\* C36: for every render shape N x M, N >= 1 and M >= 1, render_texture
\* succeeds and marks the RenderTile valid whenever all the tiles of the
\* window are compressed with consistent pixel sizes (and memory is found)
C36_EveryShapeRenders ==
    [][(/\ call'.op = "render_texture"
        /\ call'.args[2]
        /\ ~rt.is_valid
        /\ Renderable(rt, heap[rt.ref].tiles)) =>
          (call'.ret /\ call'.raised = "none" /\ rt'.is_valid)]_vars

-----------------------------------------------------------------------------
(* Claims on the lifecycle of the Scheduler (SpecRun, SpecSched) *)

\* C38: at most one runner task of the Scheduler is alive at any time, for
\* every interleaving of run() and stop() with the event loop, run() called
\* again before the first runner has started and stop() followed at once
\* by run(Run.LAST) included.
C38_OneRunner == LiveRunners(sched) <= 1

\* C40: Scheduler.new() returns the same Scheduler on every call, so every
\* TilesPool holds the same Scheduler.
C40_Singleton ==
    \A i, j \in DOMAIN asyncop.pools : asyncop.pools[i] = asyncop.pools[j]


\* the task k is one of the given kind
Scheduled(k, kind) == k \in DOMAIN sched.tasks /\ sched.tasks[k].kind = kind

\* the task k has run the coroutine it wraps to its end
Executed(k) == k \in DOMAIN sched.tasks /\ sched.tasks[k].st = "done"

\* C37: with the event loop running, every compression unit that
\* set_rendering schedules on a scale switch is executed in the end,
\* whether or not the pool or the scheduler is called again.
C37_UnitsRun ==
    \A k \in 1 .. MaxTasks : Scheduled(k, "unit") ~> Executed(k)

\* the task k was added with Priority.NEXT
AtNext(k) == sched.tasks[k].pq \notin {HIGH, LOW}

\* C39: a task added with Priority.NEXT starts only once every HIGH or
\* NEXT task added before it has started or ended, and a LOW task starts
\* only once every NEXT task has; hence the units of the new current grid
\* start before the prefetch units added after them.
C39_NextInOrder ==
    [][\A k \in DOMAIN sched.tasks :
          Starts(k) =>
             /\ AtNext(k) =>
                   \A j \in 1 .. k - 1 :
                       sched.tasks[j].pq # LOW => ~Unstarted(sched.tasks[j])
             /\ sched.tasks[k].pq = LOW =>
                   \A j \in DOMAIN sched.tasks :
                       AtNext(j) => ~Unstarted(sched.tasks[j])]_vars

=============================================================================
